---- MODULE Spec2Model ----
(***************************************************************************)
(* A model of package bytefmt: Parse (text -> Size) and Size.String        *)
(* (Size -> text), with the unit tables they use.                          *)
(*                                                                         *)
(* Text is a sequence of one-character strings.  Integers wider than the   *)
(* model checker's machine integers (int64 byte counts, math/big values)   *)
(* are kept the way math/big keeps them: a sign and a magnitude, the       *)
(* magnitude a little-endian sequence of words of base 10000 without       *)
(* leading zero words (zero is the empty sequence).                        *)
(*                                                                         *)
(* Beside some definitions stands a faulty variant of the same code (a     *)
(* slip that is easy to make there); the properties at the end are also    *)
(* checked against these variants, and each must notice its own.           *)
(***************************************************************************)
EXTENDS Integers, Sequences, FiniteSets, TLC

(***************************************************************************)
(* Bounds of the input families.                                           *)
(***************************************************************************)
MaxWhole == 2
MaxFrac == 2
MaxSuffix == 3
MaxMant == 3

(***************************************************************************)
(* Program constants.                                                      *)
(***************************************************************************)
Metric == 1000
Binary == 1024

(***************************************************************************)
(* Characters and strings.                                                 *)
(***************************************************************************)
DigitChars == <<"0", "1", "2", "3", "4", "5", "6", "7", "8", "9">>

IsDigit(c) == \E i \in 1..10 : DigitChars[i] = c

DigitVal(c) == (CHOOSE i \in 1..10 : DigitChars[i] = c) - 1

LowerChars == <<"b", "e", "g", "i", "k", "m", "p", "t", "u", "x">>
UpperChars == <<"B", "E", "G", "I", "K", "M", "P", "T", "U", "X">>

ToLowerChar(c) ==
  IF \E i \in 1..Len(UpperChars) : UpperChars[i] = c
  THEN LowerChars[CHOOSE i \in 1..Len(UpperChars) : UpperChars[i] = c]
  ELSE c

\* faulty variant: the text is looked up as written
ToLowerSkipped(s) == s

\* strings.ToLower
ToLower(s) == [i \in 1..Len(s) |-> ToLowerChar(s[i])]

SetMax(S) == CHOOSE m \in S : \A n \in S : n <= m
SetMin(S) == CHOOSE m \in S : \A n \in S : m <= n

\* strings.TrimRight(s, c) for a single character c
TrimRight(s, c) ==
  LET keep == {i \in 1..Len(s) : s[i] # c}
  IN  IF keep = {} THEN <<>> ELSE SubSeq(s, 1, SetMax(keep))

TrimLeft(s, c) ==
  LET keep == {i \in 1..Len(s) : s[i] # c}
  IN  IF keep = {} THEN <<>> ELSE SubSeq(s, SetMin(keep), Len(s))

(***************************************************************************)
(* math/big natural numbers: little-endian words of four decimal digits    *)
(* (base 10000), without leading zero words; zero is the empty sequence.   *)
(***************************************************************************)
WordBase == 10000
WordDigits == 4

NatNorm(x) == TrimRight(x, 0)

RECURSIVE NatOfInt(_)
NatOfInt(n) == IF n = 0 THEN <<>> ELSE <<n % WordBase>> \o NatOfInt(n \div WordBase)

RECURSIVE CmpFrom(_, _, _)
CmpFrom(x, y, i) ==
  IF i = 0 THEN 0
  ELSE IF x[i] < y[i] THEN -1
  ELSE IF x[i] > y[i] THEN 1
  ELSE CmpFrom(x, y, i - 1)

NatCmp(x, y) ==
  IF Len(x) < Len(y) THEN -1
  ELSE IF Len(x) > Len(y) THEN 1
  ELSE CmpFrom(x, y, Len(x))

RECURSIVE AddFrom(_, _, _, _)
AddFrom(x, y, i, c) ==
  IF i > Len(x) /\ i > Len(y)
  THEN (IF c = 0 THEN <<>> ELSE <<c>>)
  ELSE LET d == (IF i <= Len(x) THEN x[i] ELSE 0)
                + (IF i <= Len(y) THEN y[i] ELSE 0) + c
       IN  <<d % WordBase>> \o AddFrom(x, y, i + 1, d \div WordBase)

NatAdd(x, y) == AddFrom(x, y, 1, 0)

RECURSIVE SubFrom(_, _, _, _)
SubFrom(x, y, i, b) ==
  IF i > Len(x) THEN <<>>
  ELSE LET d == x[i] - (IF i <= Len(y) THEN y[i] ELSE 0) - b
       IN  IF d < 0
           THEN <<d + WordBase>> \o SubFrom(x, y, i + 1, 1)
           ELSE <<d>> \o SubFrom(x, y, i + 1, 0)

\* x - y for x >= y
NatSub(x, y) == NatNorm(SubFrom(x, y, 1, 0))

RECURSIVE MulSmallFrom(_, _, _, _)
MulSmallFrom(x, m, i, c) ==
  IF i > Len(x) THEN NatOfInt(c)
  ELSE LET d == x[i] * m + c
       IN  <<d % WordBase>> \o MulSmallFrom(x, m, i + 1, d \div WordBase)

\* x * m for a single word m
NatMulSmall(x, m) == IF m = 0 THEN <<>> ELSE MulSmallFrom(x, m, 1, 0)

\* x * WordBase
NatShift(x) == IF x = <<>> THEN <<>> ELSE <<0>> \o x

RECURSIVE NatMul(_, _)
NatMul(x, y) ==
  IF y = <<>> \/ x = <<>> THEN <<>>
  ELSE LET rest == NatMul(x, Tail(y))
       IN  IF rest = <<>> THEN NatMulSmall(x, y[1])
           ELSE NatAdd(NatMulSmall(x, y[1]), <<0>> \o rest)

RECURSIVE NatExp(_, _)
NatExp(x, n) == IF n = 0 THEN <<1>> ELSE NatMul(NatExp(x, n - 1), x)

\* how often y fits into r: [k, r - k*y]
RECURSIVE Fit(_, _, _)
Fit(r, y, k) ==
  IF NatCmp(r, y) < 0 THEN [k |-> k, r |-> r] ELSE Fit(NatSub(r, y), y, k + 1)

\* the quotient word and the remainder of r by y, for r < y * WordBase,
\* found a decimal digit at a time
addDigit(k, g) == [k |-> 10 * k + g.k, r |-> g.r]

\* the next decimal digit of the quotient: how often ym fits into what is left
fitDigit(f, ym) == addDigit(f.k, Fit(f.r, ym, 0))

DivWord(r, y) ==
  fitDigit(fitDigit(fitDigit(Fit(r, NatMulSmall(y, 1000), 0), NatMulSmall(y, 100)),
                    NatMulSmall(y, 10)), y)

\* the quotient word f.k before the words q of the quotient
wordBefore(f, q) == [q |-> <<f.k>> \o q, r |-> f.r]

\* long division of the words x[i..], most significant first
RECURSIVE DivFrom(_, _, _)
DivFrom(x, y, i) ==
  IF i > Len(x) THEN [q |-> <<>>, r |-> <<>>]
  ELSE LET hi == DivFrom(x, y, i + 1)
       IN  IF hi.r = <<>> /\ x[i] = 0 THEN [q |-> <<0>> \o hi.q, r |-> <<>>]
           ELSE wordBefore(DivWord(<<x[i]>> \o hi.r, y), hi.q)

\* quotient and remainder of x by y > 0
normalised(d) == [q |-> NatNorm(d.q), r |-> d.r]

NatDivMod(x, y) == normalised(DivFrom(x, y, 1))

\* the decimal digits of x, most significant first, without leading zeros
NatDigits(x) ==
  TrimLeft([k \in 1..(WordDigits * Len(x)) |->
              LET j == WordDigits * Len(x) - k     \* the digit's decimal place
              IN  (x[(j \div WordDigits) + 1] \div (10 ^ (j % WordDigits))) % 10], 0)

\* the number whose decimal digits, most significant first, are ds
NatOfDigits(ds) ==
  LET n == Len(ds)
      place(j) == IF j < n THEN ds[n - j] ELSE 0   \* the digit at decimal place j
  IN  NatNorm([w \in 1..((n + WordDigits - 1) \div WordDigits) |->
                 place(WordDigits * (w - 1)) + 10 * place(WordDigits * (w - 1) + 1)
                 + 100 * place(WordDigits * (w - 1) + 2)
                 + 1000 * place(WordDigits * (w - 1) + 3)])

(***************************************************************************)
(* math/big.Int: a sign and a magnitude; zero is never negative.           *)
(***************************************************************************)
MkInt(neg, abs) == [neg |-> neg /\ abs # <<>>, abs |-> abs]

NewInt(n) == IF n < 0 THEN MkInt(TRUE, NatOfInt(-n)) ELSE MkInt(FALSE, NatOfInt(n))

IntZero == MkInt(FALSE, <<>>)

IntNeg(z) == MkInt(~z.neg, z.abs)

IntMul(x, y) == MkInt(x.neg # y.neg, NatMul(x.abs, y.abs))

IntAdd(x, y) ==
  IF x.neg = y.neg THEN MkInt(x.neg, NatAdd(x.abs, y.abs))
  ELSE IF NatCmp(x.abs, y.abs) >= 0 THEN MkInt(x.neg, NatSub(x.abs, y.abs))
  ELSE MkInt(y.neg, NatSub(y.abs, x.abs))

\* Quo: the quotient truncated toward zero, y # 0
IntQuo(x, y) == MkInt(x.neg # y.neg, NatDivMod(x.abs, y.abs).q)

\* Rem: the remainder, with the sign of x
IntRem(x, y) == MkInt(x.neg, NatDivMod(x.abs, y.abs).r)

IntExp(x, n) == MkInt(x.neg /\ n % 2 = 1, NatExp(x.abs, n))

IntCmp(x, y) ==
  IF x.neg /\ ~y.neg THEN -1
  ELSE IF ~x.neg /\ y.neg THEN 1
  ELSE IF x.neg THEN NatCmp(y.abs, x.abs)
  ELSE NatCmp(x.abs, y.abs)

RECURSIVE NatOfOctal(_, _)
NatOfOctal(ds, acc) ==
  IF Len(ds) = 0 THEN acc
  ELSE NatOfOctal(Tail(ds), NatAdd(NatMulSmall(acc, 8), NatOfInt(DigitVal(Head(ds)))))

\* faulty variant: SetString(s, 0), which takes the base from the prefix, so
\* that digits after a leading 0 are read as octal
SetStringBase0(s) ==
  LET signed == Len(s) > 0 /\ s[1] \in {"-", "+"}
      digits == IF signed THEN Tail(s) ELSE s
  IN  IF \/ Len(digits) = 0
         \/ \E i \in 1..Len(digits) : ~IsDigit(digits[i])
         \/ Len(digits) > 1 /\ digits[1] = "0"
            /\ \E i \in 1..Len(digits) : digits[i] \in {"8", "9"}
      THEN [ok |-> FALSE, val |-> IntZero]
      ELSE [ok |-> TRUE,
            val |-> MkInt(signed /\ s[1] = "-",
                          IF Len(digits) > 1 /\ digits[1] = "0"
                          THEN NatOfOctal(digits, <<>>)
                          ELSE NatOfDigits([i \in 1..Len(digits) |-> DigitVal(digits[i])]))]

\* SetString(s, 10): an optional sign, then one or more decimal digits and
\* nothing else.  On failure the value of the receiver is undefined.
SetString(s) ==
  LET signed == Len(s) > 0 /\ s[1] \in {"-", "+"}
      digits == IF signed THEN Tail(s) ELSE s
  IN  IF Len(digits) = 0 \/ \E i \in 1..Len(digits) : ~IsDigit(digits[i])
      THEN [ok |-> FALSE, val |-> IntZero]
      ELSE [ok |-> TRUE,
            val |-> MkInt(signed /\ s[1] = "-",
                          NatOfDigits([i \in 1..Len(digits) |-> DigitVal(digits[i])]))]

ten == NewInt(10)
tenPow3 == NewInt(1000)
twoPow10 == NewInt(1024)

(***************************************************************************)
(* int64                                                                   *)
(***************************************************************************)
\* 2^63 = 9223372036854775808
TwoPow63 == NatOfDigits(<<9, 2, 2, 3, 3, 7, 2, 0, 3, 6, 8, 5, 4, 7, 7, 5, 8, 0, 8>>)
MaxInt64 == MkInt(FALSE, NatSub(TwoPow63, <<1>>))
MinInt64 == MkInt(TRUE, TwoPow63)

\* faulty variant: the upper end of the range is off by one
IsInt64Wide(z) == IntCmp(z, MinInt64) >= 0 /\ IntCmp(z, MkInt(FALSE, TwoPow63)) <= 0

\* big.Int.IsInt64: whether z fits in [-2^63, 2^63-1]
IsInt64(z) == IntCmp(z, MinInt64) >= 0 /\ IntCmp(z, MaxInt64) <= 0

\* faulty variant: strconv.AppendUint(_, uint64(n), 10), which prints a
\* negative n as 2^64 - |n|
AppendUint(n) ==
  LET u  == IF n.neg THEN NatSub(NatMulSmall(TwoPow63, 2), n.abs) ELSE n.abs
      ds == NatDigits(u)
  IN  IF u = <<>> THEN <<"0">> ELSE [i \in 1..Len(ds) |-> DigitChars[ds[i] + 1]]

\* strconv.AppendInt(_, n, 10)
AppendInt(n) ==
  IF n.abs = <<>> THEN <<"0">>
  ELSE LET ds == NatDigits(n.abs)
       IN  (IF n.neg THEN <<"-">> ELSE <<>>) \o [i \in 1..Len(ds) |-> DigitChars[ds[i] + 1]]

(***************************************************************************)
(* The unit tables.                                                        *)
(***************************************************************************)
metricSuffixes == << <<"B">>, <<"k", "B">>, <<"M", "B">>, <<"G", "B">>,
                     <<"T", "B">>, <<"P", "B">>, <<"E", "B">> >>

binarySuffixes == << <<"B">>, <<"K", "i", "B">>, <<"M", "i", "B">>, <<"G", "i", "B">>,
                     <<"T", "i", "B">>, <<"P", "i", "B">>, <<"E", "i", "B">> >>

NoErr == [msg |-> "", quoted |-> <<>>]
Err(m) == [msg |-> m, quoted |-> <<>>]
\* faulty variant: the error quotes the lower-cased text
InvalidUnitLowered(s) == [msg |-> "is not a valid byte quantity", quoted |-> ToLower(s)]

\* fmt.Errorf("%q is not a valid byte quantity", s)
InvalidUnit(s) == [msg |-> "is not a valid byte quantity", quoted |-> s]

SuffixOk(e, b) == [exp |-> e, base |-> b, err |-> NoErr]

parseSuffix(s) ==
  LET l == ToLower(s)
  IN  CASE l \in {<<"b">>, <<>>} -> SuffixOk(0, Metric)
        [] l \in {<<"k", "b">>, <<"k">>} -> SuffixOk(1, Metric)
        [] l \in {<<"m", "b">>, <<"m">>} -> SuffixOk(2, Metric)
        [] l \in {<<"g", "b">>, <<"g">>} -> SuffixOk(3, Metric)
        [] l \in {<<"t", "b">>, <<"t">>} -> SuffixOk(4, Metric)
        [] l \in {<<"p", "b">>, <<"p">>} -> SuffixOk(5, Metric)
        [] l \in {<<"e", "b">>, <<"e">>} -> SuffixOk(6, Metric)
        [] l = <<"k", "i", "b">> -> SuffixOk(1, Binary)
        [] l = <<"m", "i", "b">> -> SuffixOk(2, Binary)
        [] l = <<"g", "i", "b">> -> SuffixOk(3, Binary)
        [] l = <<"t", "i", "b">> -> SuffixOk(4, Binary)
        [] l = <<"p", "i", "b">> -> SuffixOk(5, Binary)
        [] l = <<"e", "i", "b">> -> SuffixOk(6, Binary)
        [] OTHER -> [exp |-> 0, base |-> Metric, err |-> InvalidUnit(s)]

(***************************************************************************)
(* Size and the results of Parse.                                          *)
(***************************************************************************)
\* faulty variant: a zero size gets the default base
NewZeroDefault(bytes, base) ==
  [bytes |-> bytes, Base |-> IF bytes = IntZero THEN Metric ELSE base]

New(bytes, base) == [bytes |-> bytes, Base |-> base]

\* the nil *Size returned beside an error
NilSize == [nil |-> TRUE]

Failed(e) == [ok |-> FALSE, size |-> NilSize, err |-> e]

(***************************************************************************)
(* parse, the steps in the order of the code.  Positions are 1-based:      *)
(* pos <= Len(s) is the code's pos < end.                                  *)
(***************************************************************************)
\* the position after the run of digits that starts at pos
skipDigits(s, pos) ==
  LET stops == {i \in pos..Len(s) : ~IsDigit(s[i])}
  IN  IF stops = {} THEN Len(s) + 1 ELSE SetMin(stops)

\* sign, whole part and fractional part: what was read and where it ended
scanNumber(s) ==
  LET negative == Len(s) # 0 /\ s[1] = "-"
      start    == IF negative THEN 2 ELSE 1
      wholeEnd == skipDigits(s, start)
      hasDot   == wholeEnd <= Len(s) /\ s[wholeEnd] = "."
      fracEnd  == IF hasDot THEN skipDigits(s, wholeEnd + 1) ELSE wholeEnd
  IN  [negative |-> negative,
       whole    |-> SubSeq(s, start, wholeEnd - 1),
       frac     |-> IF hasDot THEN SubSeq(s, wholeEnd + 1, fracEnd - 1) ELSE <<>>,
       pos      |-> fracEnd]

\* faulty variant: the check is left out
noDigitsUnchecked(whole, frac) == FALSE

noDigits(whole, frac) == Len(whole) = 0 /\ Len(frac) = 0

\* frac = strings.TrimRight(frac, "0")
normalizeFrac(frac) == TrimRight(frac, "0")

\* faulty variant: every space and tab after the number is skipped
skipSpaceRun(s, pos) ==
  LET stops == {i \in pos..Len(s) : s[i] \notin {" ", "\t"}}
  IN  IF stops = {} THEN Len(s) + 1 ELSE SetMin(stops)

\* the optional space between the number and the unit suffix
skipSpace(s, pos) == IF pos <= Len(s) /\ s[pos] = " " THEN pos + 1 ELSE pos

unitScale(exp, base) ==
  CASE base = Metric -> IntExp(tenPow3, exp)
    [] base = Binary -> IntExp(twoPow10, exp)

\* faulty variant: the division comes before the multiplication by scale
scaleValueDivFirst(val, frac, scale) ==
  IF Len(frac) # 0
  THEN LET prec == IntExp(ten, Len(frac))
           f    == SetString(frac).val
       IN  IntMul(IntQuo(IntAdd(IntMul(val, prec), f), prec), scale)
  ELSE IntMul(val, scale)

\* (whole * 10^len(frac) + frac) * scale / 10^len(frac)
scaleValue(val, frac, scale) ==
  IF Len(frac) # 0
  THEN LET prec == IntExp(ten, Len(frac))
           f    == SetString(frac).val
       IN  IntQuo(IntMul(IntAdd(IntMul(val, prec), f), scale), prec)
  ELSE IntMul(val, scale)

applySign(negative, val) == IF negative THEN IntNeg(val) ELSE val

\* faulty variant: the range of the number is checked before its suffix
parseRangeFirst(s) ==
  IF Len(s) = 0 THEN Failed(Err("empty string"))
  ELSE
    LET num == scanNumber(s)
    IN  IF noDigits(num.whole, num.frac) THEN Failed(Err("must start with a number"))
        ELSE
          LET whole == IF Len(num.whole) = 0 THEN <<"0">> ELSE num.whole
              frac  == normalizeFrac(num.frac)
              pos   == skipSpace(s, num.pos)
              suf   == parseSuffix(SubSeq(s, pos, Len(s)))
              val   == applySign(num.negative,
                                 scaleValue(SetString(whole).val, frac,
                                            unitScale(suf.exp, suf.base)))
          IN  IF ~IsInt64(val) THEN Failed(Err("value exceeds 64 bits"))
              ELSE IF suf.err # NoErr THEN Failed(suf.err)
              ELSE [ok |-> TRUE, size |-> New(val, suf.base), err |-> NoErr]

parse(s) ==
  IF Len(s) = 0 THEN Failed(Err("empty string"))
  ELSE
    LET num == scanNumber(s)
    IN  IF noDigits(num.whole, num.frac) THEN Failed(Err("must start with a number"))
        ELSE
          LET whole == IF Len(num.whole) = 0 THEN <<"0">> ELSE num.whole
              frac  == normalizeFrac(num.frac)
              pos   == skipSpace(s, num.pos)
              suf   == parseSuffix(SubSeq(s, pos, Len(s)))
          IN  IF suf.err # NoErr THEN Failed(suf.err)
              ELSE
                LET val == applySign(num.negative,
                                     scaleValue(SetString(whole).val, frac,
                                                unitScale(suf.exp, suf.base)))
                IN  IF ~IsInt64(val) THEN Failed(Err("value exceeds 64 bits"))
                    ELSE [ok |-> TRUE, size |-> New(val, suf.base), err |-> NoErr]

\* fmt.Errorf("can't convert %q to size: %w", s, err) around the error of r
wrapped(s, r) ==
  IF r.err # NoErr
  THEN Failed([msg |-> "can't convert to size", quoted |-> s, cause |-> r.err])
  ELSE r

\* faulty variant: the error of parse is returned as it is
ParseUnwrapped(s) == parse(s)

\* Parse wraps the error of parse with the input text
Parse(s) == wrapped(s, parse(s))

(***************************************************************************)
(* Size.String                                                             *)
(***************************************************************************)
\* int64 division and remainder by a positive constant (truncated)
I64Quo(m, d) == IntQuo(m, NewInt(d))
I64Rem(m, d) == IntRem(m, NewInt(d))

\* faulty variant: the loop is entered above 1000 only, not at 1000
RECURSIVE scaleLoopStrict(_, _, _, _)
scaleLoopStrict(mant, exp, div, n) ==
  IF (IntCmp(mant, NewInt(1000)) > 0 \/ IntCmp(mant, NewInt(-1000)) < 0)
     /\ I64Rem(mant, div) = IntZero
     /\ exp < n
  THEN scaleLoopStrict(I64Quo(mant, div), exp + 1, div, n)
  ELSE [mant |-> mant, exp |-> exp]

\* for (mant >= 1000 || mant <= -1000) && mant%div == 0 && exp < n { ... }
RECURSIVE scaleLoop(_, _, _, _)
scaleLoop(mant, exp, div, n) ==
  IF (IntCmp(mant, NewInt(1000)) >= 0 \/ IntCmp(mant, NewInt(-1000)) <= 0)
     /\ I64Rem(mant, div) = IntZero
     /\ exp < n
  THEN scaleLoop(I64Quo(mant, div), exp + 1, div, n)
  ELSE [mant |-> mant, exp |-> exp]

\* faulty variant: the space is left out
formatResultNoSpace(mant, suffix) == AppendInt(mant) \o suffix

\* result = AppendInt(mant) + ' ' + suffix
formatResult(mant, suffix) == AppendInt(mant) \o <<" ">> \o suffix

Panic(m) == [panic |-> m, text |-> <<>>]

\* the mantissa before the suffix of the exponent that the loop has reached
suffixed(r, table) ==
  IF r.exp >= Len(table) THEN Panic("index out of range")
  ELSE [panic |-> "", text |-> formatResult(r.mant, table[r.exp + 1])]

\* faulty variant: the case of an unset Base is missing
StringNoDefault(s) ==
  CASE s.Base = Metric ->
         suffixed(scaleLoop(s.bytes, 0, 1000, Len(metricSuffixes)), metricSuffixes)
    [] s.Base = Binary ->
         suffixed(scaleLoop(s.bytes, 0, 1024, Len(binarySuffixes)), binarySuffixes)
    [] OTHER -> Panic("invalid base")

String(s) ==
  CASE s.Base \in {0, Metric} ->
         suffixed(scaleLoop(s.bytes, 0, 1000, Len(metricSuffixes)), metricSuffixes)
    [] s.Base = Binary ->
         suffixed(scaleLoop(s.bytes, 0, 1024, Len(binarySuffixes)), binarySuffixes)
    [] OTHER -> Panic("invalid base")

(***************************************************************************)
(* The earlier revision of parse (Size returned by value).  The sign is    *)
(* skipped but left in the whole part, and SetString reads it.  When       *)
(* SetString fails (the whole part is a bare "-") the value of val is      *)
(* undefined: undef is the value it is left with.                          *)
(***************************************************************************)
ZeroSize == New(IntZero, 0)

Failed2(e) == [ok |-> FALSE, size |-> ZeroSize, err |-> e]

scanNumber2(s) ==
  LET start    == IF Len(s) # 0 /\ s[1] = "-" THEN 2 ELSE 1
      wholeEnd == skipDigits(s, start)
      hasDot   == wholeEnd <= Len(s) /\ s[wholeEnd] = "."
      fracEnd  == IF hasDot THEN skipDigits(s, wholeEnd + 1) ELSE wholeEnd
  IN  [whole |-> SubSeq(s, 1, wholeEnd - 1),
       frac  |-> IF hasDot THEN SubSeq(s, wholeEnd + 1, fracEnd - 1) ELSE <<>>,
       pos   |-> fracEnd]

parse2(s, undef) ==
  IF Len(s) = 0 THEN Failed2(Err("empty string"))
  ELSE
    LET num == scanNumber2(s)
    IN  IF noDigits(num.whole, num.frac) THEN Failed2(Err("must start with a number"))
        ELSE
          LET whole == IF Len(num.whole) = 0 THEN <<"0">> ELSE num.whole
              frac  == normalizeFrac(num.frac)
              pos   == skipSpace(s, num.pos)
              suf   == parseSuffix(SubSeq(s, pos, Len(s)))
              set   == SetString(whole)
          IN  IF suf.err # NoErr THEN Failed2(suf.err)
              ELSE
                LET val == scaleValue(IF set.ok THEN set.val ELSE undef, frac,
                                      unitScale(suf.exp, suf.base))
                IN  IF ~IsInt64(val) THEN Failed2(Err("value exceeds 64 bits"))
                    ELSE [ok |-> TRUE, size |-> New(val, suf.base), err |-> NoErr]

\* the same wrapping, beside the zero Size
wrapped2(s, r) ==
  IF r.err # NoErr
  THEN Failed2([msg |-> "can't convert to size", quoted |-> s, cause |-> r.err])
  ELSE r

Parse2(s, undef) == wrapped2(s, parse2(s, undef))

\* what a failed SetString may leave in its receiver
UndefVals == {IntZero, NewInt(1)}

(***************************************************************************)
(* The adapters: text, JSON and database values.  An encoder returns what  *)
(* String returns, a panic included.  A decoder is given the receiver s    *)
(* and returns the receiver as the call leaves it, the error returned and  *)
(* the panic raised, if any.                                               *)
(***************************************************************************)
RECURSIVE Flatten(_)
Flatten(ss) == IF ss = <<>> THEN <<>> ELSE Head(ss) \o Flatten(Tail(ss))

\* strconv.Quote, for texts of printable ASCII characters and tabs
Quote(s) ==
  <<"\"">>
  \o Flatten([i \in 1..Len(s) |->
                CASE s[i] = "\"" -> <<"\\", "\"">>
                  [] s[i] = "\\" -> <<"\\", "\\">>
                  [] s[i] = "\t" -> <<"\\", "t">>
                  [] OTHER -> <<s[i]>>])
  \o <<"\"">>

\* the text between the quotes with its escapes resolved, from position i;
\* a quote that is not escaped and an escape other than \", \\ and \t (the
\* only ones the texts of the model can spell) are syntax errors
RECURSIVE Unescape(_, _)
Unescape(b, i) ==
  IF i > Len(b) THEN [ok |-> TRUE, str |-> <<>>]
  ELSE IF b[i] = "\"" THEN [ok |-> FALSE, str |-> <<>>]
  ELSE IF b[i] = "\\"
  THEN IF i = Len(b) \/ b[i + 1] \notin {"\"", "\\", "t"}
       THEN [ok |-> FALSE, str |-> <<>>]
       ELSE LET rest == Unescape(b, i + 2)
            IN  [ok |-> rest.ok,
                 str |-> <<IF b[i + 1] = "t" THEN "\t" ELSE b[i + 1]>> \o rest.str]
  ELSE LET rest == Unescape(b, i + 1)
       IN  [ok |-> rest.ok, str |-> <<b[i]>> \o rest.str]

\* strconv.Unquote of a text that begins with a double quote
Unquote(s) ==
  IF Len(s) < 2 \/ s[1] # "\"" \/ s[Len(s)] # "\""
  THEN [ok |-> FALSE, str |-> <<>>]
  ELSE LET r == Unescape(SubSeq(s, 2, Len(s) - 1), 1)
       IN  IF r.ok THEN r ELSE [ok |-> FALSE, str |-> <<>>]

MarshalText(s) == String(s)

\* strconv.Quote of the text that String has returned
quoted(r) == IF r.panic # "" THEN r ELSE [r EXCEPT !.text = Quote(@)]

MarshalJSON(s) == quoted(String(s))

Value(s) == String(s)

Decoded(s, e) == [s |-> s, err |-> e, panic |-> ""]

\* if err != nil { return err }; *s = *size; return nil
assigned(s, r) == IF ~r.ok THEN Decoded(s, r.err) ELSE Decoded(r.size, NoErr)

UnmarshalText(s, value) == assigned(s, Parse(value))

NullText == <<"n", "u", "l", "l">>

\* the text UnmarshalJSON gives to Parse, or the error of Unquote
jsonText(value) ==
  IF Len(value) > 2 /\ value[1] = "\""
  THEN LET u == Unquote(value)
       IN  IF u.ok THEN [ok |-> TRUE, str |-> u.str, err |-> NoErr]
           ELSE [ok |-> FALSE, str |-> <<>>,
                 err |-> [msg |-> "can't decode as bytefmt.Size", quoted |-> value,
                          cause |-> Err("invalid syntax")]]
  ELSE [ok |-> TRUE, str |-> value, err |-> NoErr]

\* faulty variant: the quotes are not removed before Parse
\* the text j without its quotes is parsed, unless Unquote has failed
unquoted(s, j) == IF ~j.ok THEN Decoded(s, j.err) ELSE assigned(s, Parse(j.str))

\* faulty variant: the quotes are not removed before Parse
UnmarshalJSONRaw(s, value) ==
  IF value = NullText THEN Decoded(s, Err("can't decode null as bytefmt.Size"))
  ELSE assigned(s, Parse(value))

UnmarshalJSON(s, value) ==
  IF value = NullText THEN Decoded(s, Err("can't decode null as bytefmt.Size"))
  ELSE unquoted(s, jsonText(value))

\* the earlier revision: *s = size comes before the test of err
assigned2(r, str) ==
  IF ~r.ok
  THEN Decoded(r.size, [msg |-> "can't decode as bytefmt.Size",
                        quoted |-> str, cause |-> r.err])
  ELSE Decoded(r.size, NoErr)

unquoted2(s, j, undef) ==
  IF ~j.ok THEN Decoded(s, j.err) ELSE assigned2(Parse2(j.str, undef), j.str)

UnmarshalJSON2(s, value, undef) ==
  IF value = NullText THEN Decoded(s, Err("can't decode null as bytefmt.Size"))
  ELSE unquoted2(s, jsonText(value), undef)

\* a value of a dynamic type, as a driver gives it to Scan
Dyn(type, v) == [type |-> type, v |-> v]

TypeMismatch(value) ==
  [msg |-> "could not convert value to bytefmt.Size", quoted |-> value]

\* *s = *size is run whatever err is, and size is nil when Parse has failed
dereferenced(s, r) ==
  IF ~r.ok THEN [s |-> s, err |-> NoErr, panic |-> "nil pointer dereference"]
  ELSE Decoded(r.size, NoErr)

Scan(s, value) ==
  CASE value.type = "int64" -> Decoded(New(value.v, Metric), NoErr)
    [] value.type \in {"string", "[]byte"} -> dereferenced(s, Parse(value.v))
    [] OTHER -> Decoded(s, TypeMismatch(value))

(***************************************************************************)
(* The revision in which a Size has a unit.  A Unit is an int64: the       *)
(* number of bytes of the unit, or one of the two values that select the   *)
(* unit automatically, which the source names Metric (0) and Binary (-1).  *)
(***************************************************************************)
Byte == NewInt(1)

KB == IntMul(NewInt(1000), Byte)
MB == IntMul(NewInt(1000), KB)
GB == IntMul(NewInt(1000), MB)
TB == IntMul(NewInt(1000), GB)
PB == IntMul(NewInt(1000), TB)
EB == IntMul(NewInt(1000), PB)

KiB == IntMul(NewInt(1024), Byte)
MiB == IntMul(NewInt(1024), KiB)
GiB == IntMul(NewInt(1024), MiB)
TiB == IntMul(NewInt(1024), GiB)
PiB == IntMul(NewInt(1024), TiB)
EiB == IntMul(NewInt(1024), PiB)

MetricAuto == IntZero
BinaryAuto == NewInt(-1)

\* the map from a unit to its suffix, as pairs
suffixes ==
  {<<Byte, <<"B">> >>, <<KB, <<"k", "B">> >>, <<MB, <<"M", "B">> >>,
   <<GB, <<"G", "B">> >>, <<TB, <<"T", "B">> >>, <<PB, <<"P", "B">> >>,
   <<EB, <<"E", "B">> >>, <<KiB, <<"K", "i", "B">> >>, <<MiB, <<"M", "i", "B">> >>,
   <<GiB, <<"G", "i", "B">> >>, <<TiB, <<"T", "i", "B">> >>,
   <<PiB, <<"P", "i", "B">> >>, <<EiB, <<"E", "i", "B">> >>}

\* the units mustValidateUnit lets through
ValidUnits == {MetricAuto, BinaryAuto} \cup {e[1] : e \in suffixes}

FromInt64(i, u) == [bytes |-> i, unit |-> u]

UnitOk(u) == [unit |-> u, err |-> NoErr]

parseUnit(s) ==
  LET l == ToLower(s)
  IN  CASE l \in {<<"b">>, <<>>} -> UnitOk(Byte)
        [] l \in {<<"k", "b">>, <<"k">>} -> UnitOk(KB)
        [] l \in {<<"m", "b">>, <<"m">>} -> UnitOk(MB)
        [] l \in {<<"g", "b">>, <<"g">>} -> UnitOk(GB)
        [] l \in {<<"t", "b">>, <<"t">>} -> UnitOk(TB)
        [] l \in {<<"p", "b">>, <<"p">>} -> UnitOk(PB)
        [] l \in {<<"e", "b">>, <<"e">>} -> UnitOk(EB)
        [] l = <<"k", "i", "b">> -> UnitOk(KiB)
        [] l = <<"m", "i", "b">> -> UnitOk(MiB)
        [] l = <<"g", "i", "b">> -> UnitOk(GiB)
        [] l = <<"t", "i", "b">> -> UnitOk(TiB)
        [] l = <<"p", "i", "b">> -> UnitOk(PiB)
        [] l = <<"e", "i", "b">> -> UnitOk(EiB)
        [] OTHER -> [unit |-> IntZero, err |-> InvalidUnit(s)]

\* the Size{} returned beside an error
Failed3(e) == [ok |-> FALSE, size |-> FromInt64(IntZero, IntZero), err |-> e]

\* the whole part is s[:pos]: the scan starts at the first character
scanNumber3(s) ==
  LET wholeEnd == skipDigits(s, 1)
      hasDot   == wholeEnd <= Len(s) /\ s[wholeEnd] = "."
      fracEnd  == IF hasDot THEN skipDigits(s, wholeEnd + 1) ELSE wholeEnd
  IN  [whole |-> SubSeq(s, 1, wholeEnd - 1),
       frac  |-> IF hasDot THEN SubSeq(s, wholeEnd + 1, fracEnd - 1) ELSE <<>>,
       pos   |-> fracEnd]

\* (whole * 10^len(frac) + frac) * unit / 10^len(frac)
scaleByUnit(val, frac, u) ==
  IF Len(frac) # 0
  THEN LET exp == IntExp(ten, Len(frac))
           f   == SetString(frac).val
       IN  IntQuo(IntMul(IntAdd(IntMul(val, exp), f), u), exp)
  ELSE IntMul(val, u)

\* parse after the checks of its first lines
\* if !val.IsInt64() { return ..., errors.New("value exceeds 63 bits") }
withinRange3(val, unit) ==
  IF ~IsInt64(val) THEN Failed3(Err("value exceeds 63 bits"))
  ELSE [ok |-> TRUE, size |-> FromInt64(val, unit), err |-> NoErr]

\* the value in bytes of the number before the unit pu, when it is one
scaled3(whole, frac, pu) ==
  IF pu.err # NoErr THEN Failed3(pu.err)
  ELSE withinRange3(scaleByUnit(whole, frac, pu.unit), pu.unit)

parseNumber3(s) ==
  LET num == scanNumber3(s)
  IN  IF noDigits(num.whole, num.frac) THEN Failed3(Err("must start with a number"))
      ELSE
        LET whole == IF Len(num.whole) = 0 THEN <<"0">> ELSE num.whole
            frac  == TrimRight(num.frac, "0")
            pos   == skipSpace(s, num.pos)
        IN  scaled3(SetString(whole).val, frac, parseUnit(SubSeq(s, pos, Len(s))))

\* faulty variant: the check of the sign is missing
parse3Unsigned(s) ==
  IF Len(s) = 0 THEN Failed3(Err("empty string"))
  ELSE parseNumber3(s)

parse3(s) ==
  IF Len(s) = 0 THEN Failed3(Err("empty string"))
  ELSE IF s[1] = "-" THEN Failed3(Err("values must be non-negative"))
  ELSE parseNumber3(s)

\* fmt.Errorf("can't convert %q to size: %w", s, err) around the error of r
wrapped3(s, r) ==
  IF r.err # NoErr
  THEN Failed3([msg |-> "can't convert to size", quoted |-> s, cause |-> r.err])
  ELSE r

Parse3(s) == wrapped3(s, parse3(s))

(***************************************************************************)
(* The methods of Size.  A method with a pointer receiver is modelled by   *)
(* the receiver it leaves; Add and Sub, which take a Size by value, also   *)
(* by the argument the caller is left with.  int64 arithmetic wraps        *)
(* modulo 2^64.                                                            *)
(***************************************************************************)
TwoPow64 == NatMulSmall(TwoPow63, 2)

\* the int64 that z, a sum or difference of two int64s, wraps to
Wrap64(z) ==
  IF IntCmp(z, MaxInt64) > 0 THEN IntAdd(z, MkInt(TRUE, TwoPow64))
  ELSE IF IntCmp(z, MinInt64) < 0 THEN IntAdd(z, MkInt(FALSE, TwoPow64))
  ELSE z

IsZero(s) == s.bytes = IntZero

\* faulty variant: the sign of the wrapped difference s.bytes - y.bytes
CmpBySubtraction(s, y) ==
  LET d == Wrap64(IntAdd(s.bytes, IntNeg(y.bytes)))
  IN  IF d = IntZero THEN 0 ELSE IF d.neg THEN -1 ELSE 1

Cmp(s, y) ==
  CASE s.bytes = y.bytes -> 0
    [] s.bytes # y.bytes /\ IntCmp(s.bytes, y.bytes) < 0 -> -1
    [] OTHER -> 1

\* faulty variant: the structs are compared, Base included
EqualStructs(s, y) == s = y

Equal(s, y) == Cmp(s, y) = 0

\* faulty variant: the result takes the Base of the argument
AddTakesBase(s, y) ==
  [s |-> [bytes |-> Wrap64(IntAdd(s.bytes, y.bytes)), Base |-> y.Base], y |-> y]

\* faulty variant: the sum is clamped to the int64 range
AddSaturating(s, y) ==
  LET z == IntAdd(s.bytes, y.bytes)
  IN  [s |-> [s EXCEPT !.bytes = IF IntCmp(z, MaxInt64) > 0 THEN MaxInt64
                                  ELSE IF IntCmp(z, MinInt64) < 0 THEN MinInt64
                                  ELSE z],
       y |-> y]

\* s.bytes += y.bytes
Add(s, y) == [s |-> [s EXCEPT !.bytes = Wrap64(IntAdd(s.bytes, y.bytes))], y |-> y]

\* s.bytes -= y.bytes
Sub(s, y) == [s |-> [s EXCEPT !.bytes = Wrap64(IntAdd(s.bytes, IntNeg(y.bytes)))], y |-> y]

\* s.bytes = -s.bytes
Neg(s) == [s EXCEPT !.bytes = Wrap64(IntNeg(s.bytes))]

\* return s.Cmp(Size{})
Sign(s) == Cmp(s, ZeroSize)

SetInt64(s, bytes) == [s EXCEPT !.bytes = bytes]

\* faulty variant: the absolute number of bytes
Int64Abs(s) == IF s.bytes.neg THEN Wrap64(IntNeg(s.bytes)) ELSE s.bytes

Int64(s) == s.bytes

\* the earlier revision: s.bytes += y.bytes
Sub2(s, y) == [s |-> [s EXCEPT !.bytes = Wrap64(IntAdd(s.bytes, y.bytes))], y |-> y]

\* the earlier revision: s.bytes = -1
Neg2(s) == [s EXCEPT !.bytes = NewInt(-1)]

(***************************************************************************)
(* float64, as far as Format needs it.  A float64 is a sign, a mantissa    *)
(* mant below 2^53 and an exponent k: its value is mant / 2^k (k may be    *)
(* negative).  Every result is rounded to the nearest such value, a tie    *)
(* to the even mantissa.                                                   *)
(***************************************************************************)
Pow2(k) == NatMul(NatExp(<<1024>>, k \div 10), NatOfInt(2 ^ (k % 10)))
\* 10^p, word by word
Pow10(p) ==
  [i \in 1..(p \div WordDigits + 1) |->
     IF i <= p \div WordDigits THEN 0 ELSE 10 ^ (p % WordDigits)]

IsOdd(x) == x # <<>> /\ x[1] % 2 = 1

\* x / d rounded to the nearest natural number, a tie to the even one
\* the quotient q or q + 1; half compares twice the remainder with the divisor
nearest(q, half) ==
  IF half > 0 \/ (half = 0 /\ IsOdd(q)) THEN NatAdd(q, <<1>>) ELSE q

roundedQuo(dm, d) == nearest(dm.q, NatCmp(NatMulSmall(dm.r, 2), d))

RoundHalfEven(x, d) == roundedQuo(NatDivMod(x, d), d)

\* the number of bits of x < 2^65
BitLen(x) ==
  CHOOSE n \in 0..65 :
    NatCmp(x, Pow2(n)) < 0 /\ (n = 0 \/ NatCmp(x, Pow2(n - 1)) >= 0)

FloatZero(neg) == [neg |-> neg, mant |-> <<>>, k |-> 0]

\* a mantissa that was rounded up to 2^53 is 2^52 at the next exponent
FloatNorm(neg, mant, k) ==
  IF mant = Pow2(53) THEN [neg |-> neg, mant |-> Pow2(52), k |-> k - 1]
  ELSE [neg |-> neg, mant |-> mant, k |-> k]

\* the quotient of the naturals a and b > 0, rounded to 53 bits
\* 2^k and 2^-k, or 1 where the exponent is negative
PowUp(k) == IF k > 0 THEN Pow2(k) ELSE <<1>>

PowDn(k) == IF k < 0 THEN Pow2(-k) ELSE <<1>>

\* the k, one of k0 and k0 + 1, for which 2^52 <= (a / b) * 2^k < 2^53
exponentOf(a, b, k0) ==
  IF NatCmp(NatMul(a, PowUp(k0)), NatMul(NatMul(b, PowDn(k0)), Pow2(52))) >= 0
  THEN k0 ELSE k0 + 1

\* a / b rounded to a multiple of 2^-k
roundedAt(neg, a, b, k) ==
  FloatNorm(neg, RoundHalfEven(NatMul(a, PowUp(k)), NatMul(b, PowDn(k))), k)

FloatOfRatio(neg, a, b) ==
  IF a = <<>> THEN FloatZero(neg)
  ELSE roundedAt(neg, a, b, exponentOf(a, b, 52 - BitLen(a) + BitLen(b)))

\* float64(n) for an int64 n
Float64(n) == FloatOfRatio(n.neg, n.abs, <<1>>)

\* the magnitude of a float64 that is a whole number
WholeOf(x) ==
  IF x.k <= 0 THEN NatMul(x.mant, Pow2(-x.k)) ELSE NatDivMod(x.mant, Pow2(x.k)).q

\* x / y for float64s x and y # 0 that are whole numbers: the exact quotient,
\* rounded
FloatQuo(x, y) == FloatOfRatio(x.neg # y.neg, WholeOf(x), WholeOf(y))

DigitText(ds) == [i \in 1..Len(ds) |-> DigitChars[ds[i] + 1]]

\* the natural number c written with p digits after the decimal point
\* the digits ds with zeros in front, so that a digit stands before the point
padded(ds, p) ==
  IF Len(ds) < p + 1 THEN [i \in 1..(p + 1 - Len(ds)) |-> 0] \o ds ELSE ds

\* the digits pad with a point before the last p of them
pointed(pad, p) ==
  DigitText(SubSeq(pad, 1, Len(pad) - p))
  \o (IF p > 0 THEN <<".">> \o DigitText(SubSeq(pad, Len(pad) - p + 1, Len(pad)))
      ELSE <<>>)

FixedText(c, p) == pointed(padded(NatDigits(c), p), p)

\* the most digits after the decimal point the shortest text of a quotient
\* of an int64 by a unit can need
MaxDecimals == 40

\* the value of f and the ends of the interval of the numbers that round to
\* f, all three over the denominator den; the ends belong to the interval
\* when the mantissa is even
\* the interval around v4 / den, four times the value of f, with u the unit
\* of its mantissa
intervalAround(f, u, v4) ==
  [v   |-> v4,
   lo  |-> NatSub(v4, IF f.mant = Pow2(52) THEN u ELSE NatMulSmall(u, 2)),
   hi  |-> NatAdd(v4, NatMulSmall(u, 2)),
   den |-> NatMulSmall(PowUp(f.k), 4),
   closed |-> ~IsOdd(f.mant)]

intervalWith(f, u) == intervalAround(f, u, NatMulSmall(NatMul(f.mant, u), 4))

FloatInterval(f) == intervalWith(f, PowDn(f.k))

\* the numbers with p digits after the decimal point that round to the value
\* of the interval, as naturals scaled by 10^p, nearest first
\* lo and hi compare a candidate with the ends of the interval
within(closed, lo, hi) == IF closed THEN lo >= 0 /\ hi <= 0 ELSE lo > 0 /\ hi < 0

\* cd / (den * scale) lies in the interval iv
inInterval(iv, scale, cd) ==
  within(iv.closed, NatCmp(cd, NatMul(iv.lo, scale)), NatCmp(cd, NatMul(iv.hi, scale)))

\* q and q + 1, the nearer to the value first
nearestFirst(q, near) == IF near = q THEN <<q, NatAdd(q, <<1>>)>> ELSE <<near, q>>

bothSides(dm, den) == nearestFirst(dm.q, roundedQuo(dm, den))

\* those of the candidates cs that lie in the interval
kept(iv, scale, cs) ==
  LET in(c) == inInterval(iv, scale, NatMul(c, iv.den))
  IN  SelectSeq(cs, in)

candidatesAt(iv, scale) ==
  kept(iv, scale, bothSides(NatDivMod(NatMul(iv.v, scale), iv.den), iv.den))

Candidates(iv, p) == candidatesAt(iv, Pow10(p))

\* the fewest digits after the decimal point, between a and b, with which a
\* number rounds to the value of the interval, given that b are enough (if p
\* digits are enough then so are p + 1)
RECURSIVE FewestDecimals(_, _, _)
FewestDecimals(iv, a, b) ==
  IF a = b THEN a
  ELSE LET m == (a + b) \div 2
       IN  IF Candidates(iv, m) # <<>> THEN FewestDecimals(iv, a, m)
           ELSE FewestDecimals(iv, m + 1, b)

\* strconv.FormatFloat(f, 'f', -1, 64): the fewest digits that round to f
textAt(iv, p) == FixedText(Candidates(iv, p)[1], p)

shortestIn(iv) == textAt(iv, FewestDecimals(iv, 0, MaxDecimals))

ShortestText(f) == shortestIn(FloatInterval(f))

\* strconv.FormatFloat(f, 'f', prec, 64)
FormatFloat(f, prec) ==
  (IF f.neg THEN <<"-">> ELSE <<>>)
  \o (IF f.mant = <<>> THEN FixedText(<<>>, IF prec < 0 THEN 0 ELSE prec)
      ELSE IF prec < 0 THEN ShortestText(f)
      ELSE FixedText(RoundHalfEven(NatMul(NatMul(f.mant, PowDn(f.k)), Pow10(prec)),
                                   PowUp(f.k)), prec))

(***************************************************************************)
(* Format, in the revision with units.                                     *)
(***************************************************************************)
\* the unit of the first threshold above n in the list, or last
UnitBelow(n, thresholds, last) ==
  IF \E i \in 1..Len(thresholds) : IntCmp(n, thresholds[i][1]) < 0
  THEN thresholds[SetMin({i \in 1..Len(thresholds) :
                            IntCmp(n, thresholds[i][1]) < 0})][2]
  ELSE last

\* if bytes < 0 { bytes = -bytes }: the negation is that of int64
inferUnit(bytes, unit) ==
  LET n == IF bytes.neg THEN Wrap64(IntNeg(bytes)) ELSE bytes
  IN  CASE unit = MetricAuto ->
             UnitBelow(n, << <<KB, Byte>>, <<MB, KB>>, <<GB, MB>>, <<TB, GB>>,
                             <<PB, TB>>, <<EB, PB>> >>, EB)
        [] unit = BinaryAuto ->
             UnitBelow(n, << <<KiB, Byte>>, <<MiB, KiB>>, <<GiB, MiB>>, <<TiB, GiB>>,
                             <<PiB, TiB>>, <<EiB, PiB>> >>, EiB)
        [] OTHER -> unit

suffixOf(unit) == (CHOOSE e \in suffixes : e[1] = unit)[2]

\* strconv.FormatFloat(float64(s.bytes)/float64(unit), 'f', prec, 64) and
\* the suffix of the unit
scaledText(s, prec, unit) ==
  FormatFloat(FloatQuo(Float64(s.bytes), Float64(unit)), prec)
  \o <<" ">> \o suffixOf(unit)

\* the text of s in the unit chosen for it
formatIn(s, prec, unit) ==
  IF unit = Byte THEN AppendInt(s.bytes) ELSE scaledText(s, prec, unit)

\* faulty variant: a count in plain bytes goes through float64 as well
FormatAlwaysScaled(s, prec) == scaledText(s, prec, inferUnit(s.bytes, s.unit))

Format(s, prec) == formatIn(s, prec, inferUnit(s.bytes, s.unit))

(***************************************************************************)
(* The inputs.  A text given to Parse is built from the parts of the       *)
(* grammar [-]W[.F][ ]S: a sign, a whole part, a decimal point with a      *)
(* fractional part, one space, and a suffix.                               *)
(***************************************************************************)
In(neg, whole, dot, frac, space, suffix) ==
  [neg |-> neg, whole |-> whole, dot |-> dot, frac |-> frac, space |-> space,
   suffix |-> suffix]

NoInput == In(FALSE, <<>>, FALSE, <<>>, FALSE, <<"?">>)

Render(c) ==
  (IF c.neg THEN <<"-">> ELSE <<>>) \o c.whole
  \o (IF c.dot THEN <<".">> \o c.frac ELSE <<>>)
  \o (IF c.space THEN <<" ">> ELSE <<>>) \o c.suffix

\* the texts of length at most n over the alphabet A
Texts(A, n) == UNION {[1..k -> A] : k \in 0..n}

SweepDigits == {"0", "9"}

SweepSuffixes == {<<>>, <<"B">>, <<"k", "B">>, <<"K", "i", "B">>, <<"E", "B">>,
                  <<"E", "i", "B">>, <<"x">>}

\* numbers of every shape, before a few suffixes
NumberInputs ==
  {In(neg, whole, fr[1], fr[2], space, suffix) :
     neg \in BOOLEAN, whole \in Texts(SweepDigits, MaxWhole),
     fr \in {<<FALSE, <<>> >>} \cup {<<TRUE, f>> : f \in Texts(SweepDigits, MaxFrac)},
     space \in BOOLEAN, suffix \in SweepSuffixes}

SuffixLetters == {"b", "k", "m", "g", "t", "p", "e", "i", " "}

ValidSuffixes ==
  {<<"b">>, <<"k">>, <<"m">>, <<"g">>, <<"t">>, <<"p">>, <<"e">>,
   <<"k", "b">>, <<"m", "b">>, <<"g", "b">>, <<"t", "b">>, <<"p", "b">>, <<"e", "b">>,
   <<"k", "i", "b">>, <<"m", "i", "b">>, <<"g", "i", "b">>, <<"t", "i", "b">>,
   <<"p", "i", "b">>, <<"e", "i", "b">>}

ToUpperChar(c) ==
  IF \E i \in 1..Len(LowerChars) : LowerChars[i] = c
  THEN UpperChars[CHOOSE i \in 1..Len(LowerChars) : LowerChars[i] = c]
  ELSE c

\* every way of writing the valid suffixes in upper and lower case
CaseVariants ==
  UNION {{[i \in 1..Len(v) |-> IF up[i] THEN ToUpperChar(v[i]) ELSE v[i]] :
            up \in [1..Len(v) -> BOOLEAN]} : v \in ValidSuffixes}

\* the number 1 before every short text and every spelling of a suffix
SuffixInputs ==
  {In(FALSE, <<"1">>, FALSE, <<>>, space, suffix) :
     space \in BOOLEAN, suffix \in Texts(SuffixLetters, MaxSuffix) \cup CaseVariants}

\* the cases of the package's tests and the edges of the int64 range
EdgeInputs == {
    In(FALSE, <<"9", "2", "2", "3", "3", "7", "2", "0", "3", "6", "8", "5", "4", "7", "7", "5", "8", "0", "8">>, FALSE, <<>>, FALSE, <<>>),  \* 9223372036854775808
    In(FALSE, <<"8">>, TRUE, <<"0">>, TRUE, <<"E", "i", "B">>),  \* 8.0 EiB
    In(FALSE, <<"1">>, FALSE, <<>>, TRUE, <<"t", "U", "b">>),  \* 1 tUb
    In(FALSE, <<"0">>, FALSE, <<>>, FALSE, <<>>),  \* 0
    In(TRUE, <<"0">>, FALSE, <<>>, FALSE, <<>>),  \* -0
    In(FALSE, <<"0">>, FALSE, <<>>, TRUE, <<"B">>),  \* 0 B
    In(FALSE, <<"0">>, FALSE, <<>>, FALSE, <<"m", "i", "b">>),  \* 0mib
    In(FALSE, <<>>, TRUE, <<"1">>, TRUE, <<"k", "B">>),  \* .1 kB
    In(TRUE, <<>>, TRUE, <<"1">>, TRUE, <<"k", "B">>),  \* -.1 kB
    In(FALSE, <<"1">>, TRUE, <<>>, TRUE, <<"k", "B">>),  \* 1. kB
    In(FALSE, <<>>, TRUE, <<"1", "0", "0", "0", "0">>, TRUE, <<"k", "B">>),  \* .10000 kB
    In(FALSE, <<"0", "0", "0", "0">>, TRUE, <<"1">>, TRUE, <<"k", "B">>),  \* 0000.1 kB
    In(TRUE, <<"0", "0", "0", "0">>, TRUE, <<"1">>, TRUE, <<"k", "B">>),  \* -0000.1 kB
    In(FALSE, <<"0", "0", "0", "1">>, TRUE, <<"0", "0", "0", "0">>, TRUE, <<"k", "B">>),  \* 0001.0000 kB
    In(TRUE, <<"9", "2", "2", "3", "3", "7", "2", "0", "3", "6", "8", "5", "4", "7", "7", "5", "8", "0", "8">>, FALSE, <<>>, FALSE, <<>>),  \* -9223372036854775808
    In(TRUE, <<"9">>, TRUE, <<"2", "2", "3", "3", "7", "2", "0", "3", "6", "8", "5", "4", "7", "7", "5", "8", "0", "8">>, FALSE, <<"e", "b">>),  \* -9.223372036854775808eb
    In(TRUE, <<"8">>, FALSE, <<>>, TRUE, <<"E", "i", "B">>),  \* -8 EiB
    In(FALSE, <<"9", "2", "2", "3", "3", "7", "2", "0", "3", "6", "8", "5", "4", "7", "7", "5", "8", "0", "7">>, FALSE, <<>>, FALSE, <<>>),  \* 9223372036854775807
    In(FALSE, <<"9">>, TRUE, <<"2", "2", "3", "3", "7", "2", "0", "3", "6", "8", "5", "4", "7", "7", "5", "8", "0", "7">>, FALSE, <<"e", "b">>),  \* 9.223372036854775807eb
    In(FALSE, <<"7">>, TRUE, <<"9", "9", "9", "9", "9", "9", "9", "9", "9", "9", "9", "9", "9", "9", "9", "9", "9", "9", "1", "4">>, TRUE, <<"E", "i", "B">>),  \* 7.99999999999999999914 EiB
    In(FALSE, <<"1", "2", "3">>, TRUE, <<"4", "5", "6">>, FALSE, <<"g">>),  \* 123.456g
    In(FALSE, <<"1", "2", "3">>, TRUE, <<"4", "5", "6">>, TRUE, <<"G", "B">>),  \* 123.456 GB
    In(FALSE, <<"1", "2", "3">>, TRUE, <<"4", "5", "6">>, TRUE, <<"G", "i", "B">>),  \* 123.456 GiB
    In(TRUE, <<"9", "2", "2", "3", "3", "7", "2", "0", "3", "6", "8", "5", "4", "7", "7", "5", "8", "0", "9">>, FALSE, <<>>, FALSE, <<>>),  \* -9223372036854775809
    In(FALSE, <<"9">>, TRUE, <<"2", "2", "3", "3", "7", "2", "0", "3", "6", "8", "5", "4", "7", "7", "5", "8", "0", "8">>, FALSE, <<"e", "b">>),  \* 9.223372036854775808eb
    In(FALSE, <<"8">>, FALSE, <<>>, TRUE, <<"E", "i", "B">>),  \* 8 EiB
    In(TRUE, <<"8">>, TRUE, <<"0", "0", "0", "0", "0", "0", "0", "0", "0", "0", "0", "0", "0", "0", "0", "0", "0", "0", "1">>, TRUE, <<"E", "i", "B">>),  \* -8.0000000000000000001 EiB
    In(TRUE, <<"8">>, TRUE, <<"0", "0", "0", "0", "0", "0", "0", "0", "0", "0", "0", "0", "0", "0", "0", "0", "0", "1">>, TRUE, <<"E", "i", "B">>),  \* -8.000000000000000001 EiB
    In(FALSE, <<"1">>, TRUE, <<"5">>, FALSE, <<>>),  \* 1.5
    In(FALSE, <<"0">>, TRUE, <<"5">>, FALSE, <<>>),  \* 0.5
    In(TRUE, <<"0">>, TRUE, <<"5">>, FALSE, <<>>),  \* -0.5
    In(TRUE, <<"1">>, TRUE, <<"5">>, TRUE, <<"k", "B">>),  \* -1.5 kB
    In(FALSE, <<"1">>, TRUE, <<"2", "5">>, TRUE, <<"G", "i", "B">>),  \* 1.25 GiB
    In(FALSE, <<"1", "0", "2", "4">>, FALSE, <<>>, FALSE, <<"k">>),  \* 1024k
    In(FALSE, <<"1">>, TRUE, <<"1">>, FALSE, <<"g", "b">>),  \* 1.1gb
    In(FALSE, <<"1", "0", "2", "4">>, FALSE, <<>>, FALSE, <<>>),  \* 1024
    In(FALSE, <<"1">>, FALSE, <<>>, TRUE, <<" ", "b">>),  \* 1  b
    In(FALSE, <<"1">>, TRUE, <<"0", "0", "0">>, FALSE, <<>>),  \* 1.000
    In(FALSE, <<"1">>, TRUE, <<>>, FALSE, <<>>),  \* 1.
    In(TRUE, <<"1">>, FALSE, <<>>, TRUE, <<"t", "U", "b">>),  \* -1 tUb
    In(TRUE, <<"1">>, FALSE, <<>>, FALSE, <<"B">>),  \* -1B
    In(FALSE, <<"1">>, FALSE, <<>>, FALSE, <<"\t", "k", "B">>),  \* 1<tab>kB
    In(FALSE, <<"1">>, FALSE, <<>>, TRUE, <<"\t", "k", "B">>),  \* 1 <tab>kB
    In(FALSE, <<"1">>, FALSE, <<>>, TRUE, <<"k", "B", "\t">>),  \* 1 kB<tab>
    In(FALSE, <<"1">>, FALSE, <<>>, FALSE, <<"\t">>),  \* 1<tab>
    In(FALSE, <<>>, FALSE, <<>>, TRUE, <<"1">>),  \* " 1"
    In(FALSE, <<>>, FALSE, <<>>, TRUE, <<"1", " ", "k", "B">>),  \* " 1 kB"
    In(FALSE, <<>>, FALSE, <<>>, TRUE, <<"-", "1">>),  \* " -1"
    In(TRUE, <<>>, FALSE, <<>>, TRUE, <<"1">>),  \* "- 1"
    In(FALSE, <<>>, FALSE, <<>>, FALSE, <<"\t", "1">>),  \* <tab>1
    In(FALSE, <<>>, TRUE, <<>>, TRUE, <<"t", "U", "b">>),  \* . tUb
    In(FALSE, <<"9", "9", "9", "9", "9", "9", "9", "9", "9", "9", "9", "9", "9", "9", "9", "9", "9", "9", "9", "9">>, FALSE, <<>>, TRUE, <<"t", "U", "b">>),  \* 99999999999999999999 tUb
    In(FALSE, <<"9", "9", "9", "9", "9", "9", "9", "9", "9", "9", "9", "9", "9", "9", "9", "9", "9", "9", "9", "9">>, FALSE, <<>>, TRUE, <<"k", "B">>)  \* 99999999999999999999 kB
  }

\* a suffix that begins with a space is written with the space part set
Inputs ==
  {c \in NumberInputs \cup SuffixInputs \cup EdgeInputs :
     c.space \/ Len(c.suffix) = 0 \/ c.suffix[1] # " "}

(***************************************************************************)
(* The sizes given to New: small multiples of every unit, of both signs,   *)
(* and the ends of the int64 range.                                        *)
(***************************************************************************)
Mantissas == (0..MaxMant) \cup {999, 1000, 1001, 1023, 1024, 1025}

Bases == {Metric, Binary}

ByteCounts ==
  {MinInt64, MaxInt64} \cup
  {v \in {MkInt(neg, NatMul(NatOfInt(m), NatExp(NatOfInt(b), e))) :
            neg \in BOOLEAN, m \in Mantissas, b \in Bases, e \in 0..6} : IsInt64(v)}

\* the values a Base is given: unset, the two constants, and others
OtherBases == {1, 1023}

AnyBases == {0} \cup Bases \cup OtherBases

\* the byte counts the methods are tried on, as in TestCmp and TestAdd
ArithCounts ==
  {IntZero, NewInt(1), NewInt(-1), NewInt(123), NewInt(456), MinInt64, MaxInt64}

ArithSizes == {New(b, base) : b \in ArithCounts, base \in Bases} \cup {ZeroSize}

SetCounts == {IntZero, NewInt(-456), MaxInt64}

\* the byte counts given to FromInt64, as in TestFormat: zero, the thresholds
\* of the units, the ends of the ranges of float64 and int64
FormatCounts ==
  {IntZero, NewInt(1), NewInt(999), NewInt(1000), NewInt(1023), NewInt(1024),
   NewInt(1025), NewInt(-1500), NewInt(14995), NewInt(1234567),
   MkInt(FALSE, NatAdd(Pow2(30), <<1>>)),         \* 1 GiB + 1
   MkInt(FALSE, NatMulSmall(Pow2(28), 5)),        \* 1.25 GiB
   MkInt(FALSE, NatSub(Pow2(53), <<1>>)),         \* 2^53 - 1
   MkInt(TRUE, Pow2(60)),                         \* -1 EiB
   MaxInt64, MinInt64}

\* the precisions given to Format
Precisions == {-1, 0, 2}

\* the receivers of the decoders
Receivers == {New(NewInt(5), Binary), New(NewInt(-1500), Metric)}

\* the data given to the decoders: the texts of the tests, plain and quoted,
\* null, and quoted texts that are cut short or badly escaped
DecodeTexts ==
  {Render(c) : c \in EdgeInputs} \cup {Quote(Render(c)) : c \in EdgeInputs}
  \cup {NullText, <<"\"", "\"">>, <<"\"", "1", "k">>, <<"\"", "1", "\\", "k", "\"">>,
        Quote(<<"1", "\t", "k", "B">>)}

\* the values given to Scan besides the text
OtherValues ==
  {Dyn("int64", NewInt(456)), Dyn("int64", MinInt64), Dyn("nil", <<>>),
   Dyn("float64", <<"1", ".", "5">>), Dyn("bool", <<"t", "r", "u", "e">>)}

\* how many mutating methods are called in a row
MaxOps == 2

(***************************************************************************)
(* The package-level data, and calls that run at the same time.  A call    *)
(* runs in steps; a step is given the package-level data p and the locals  *)
(* l of its call and returns both as it leaves them.                       *)
(***************************************************************************)
PkgInit ==
  [ten |-> ten, tenPow3 |-> tenPow3, twoPow10 |-> twoPow10,
   metricSuffixes |-> metricSuffixes, binarySuffixes |-> binarySuffixes]

NoLocals ==
  [negative |-> FALSE, whole |-> <<>>, frac |-> <<>>, exp |-> 0, base |-> 0,
   val |-> IntZero, scale |-> IntZero, panic |-> ""]

Cells(p, l) == [pkg |-> p, loc |-> l]

\* the text is scanned up to the end of the suffix; err is the error
\* returned, if any
parseScan(s, l) ==
  IF Len(s) = 0 THEN [err |-> Err("empty string"), loc |-> l]
  ELSE
    LET num == scanNumber(s)
    IN  IF noDigits(num.whole, num.frac)
        THEN [err |-> Err("must start with a number"), loc |-> l]
        ELSE
          LET suf == parseSuffix(SubSeq(s, skipSpace(s, num.pos), Len(s)))
          IN  [err |-> suf.err,
               loc |-> [l EXCEPT !.negative = num.negative,
                                 !.whole = IF Len(num.whole) = 0 THEN <<"0">>
                                           ELSE num.whole,
                                 !.frac = normalizeFrac(num.frac),
                                 !.exp = suf.exp,
                                 !.base = suf.base]]

\* faulty variant: the power is stored in the operand, tenPow3.Exp(tenPow3, ...)
scaleExpIntoOperand(p, l) ==
  LET v == IntExp(IF l.base = Metric THEN p.tenPow3 ELSE p.twoPow10, l.exp)
  IN  Cells(IF l.base = Metric THEN [p EXCEPT !.tenPow3 = v]
            ELSE [p EXCEPT !.twoPow10 = v],
            [l EXCEPT !.val = SetString(l.whole).val, !.scale = v])

\* val.SetString(whole, 10); scale.Exp(tenPow3, &scale, nil), or twoPow10
scaleExp(p, l) ==
  Cells(p, [l EXCEPT !.val = SetString(l.whole).val,
                     !.scale = IntExp(IF l.base = Metric THEN p.tenPow3
                                      ELSE p.twoPow10, l.exp)])

\* prec.Exp(ten, &prec, nil); val.Mul(...).Add(...).Mul(...).Quo(...)
scaleNumber(p, l) ==
  IF Len(l.frac) # 0
  THEN LET prec == IntExp(p.ten, Len(l.frac))
           f    == SetString(l.frac).val
       IN  Cells(p, [l EXCEPT !.val = IntQuo(IntMul(IntAdd(IntMul(l.val, prec), f),
                                                   l.scale), prec)])
  ELSE Cells(p, [l EXCEPT !.val = IntMul(l.val, l.scale)])

\* the sign, the range check and the Size returned
parseReturn(l) ==
  LET val == IF l.negative THEN IntNeg(l.val) ELSE l.val
  IN  IF ~IsInt64(val) THEN Failed(Err("value exceeds 64 bits"))
      ELSE [ok |-> TRUE, size |-> New(val, l.base), err |-> NoErr]

\* the loop of String over mant and exp, with the length of the table
stringScale(p, s, l) ==
  CASE s.Base \in {0, Metric} ->
         LET r == scaleLoop(s.bytes, 0, 1000, Len(p.metricSuffixes))
         IN  Cells(p, [l EXCEPT !.val = r.mant, !.exp = r.exp, !.base = Metric])
    [] s.Base = Binary ->
         LET r == scaleLoop(s.bytes, 0, 1024, Len(p.binarySuffixes))
         IN  Cells(p, [l EXCEPT !.val = r.mant, !.exp = r.exp, !.base = Binary])
    [] OTHER -> Cells(p, [l EXCEPT !.panic = "invalid base"])

\* suffix = metricSuffixes[exp], or binarySuffixes[exp], and the result
stringSuffix(p, l) ==
  LET table == IF l.base = Metric THEN p.metricSuffixes ELSE p.binarySuffixes
  IN  IF l.panic # "" THEN Panic(l.panic)
      ELSE IF l.exp >= Len(table) THEN Panic("index out of range")
      ELSE [panic |-> "", text |-> formatResult(l.val, table[l.exp + 1])]

NoResult == [ok |-> FALSE, size |-> NilSize, err |-> NoErr]

\* how many calls run at the same time
MaxCallers == 2

Call(kind, s, sz, arg) ==
  [kind |-> kind, text |-> s, size |-> sz, y |-> arg, at |-> "start",
   loc |-> NoLocals, result |-> NoResult, overlapped |-> FALSE]

ConcTexts ==
  {Render(c) : c \in {In(FALSE, <<"1">>, TRUE, <<"5">>, TRUE, <<"k", "B">>),
                      In(TRUE, <<"2">>, FALSE, <<>>, FALSE, <<"M", "i", "B">>),
                      In(FALSE, <<"8">>, FALSE, <<>>, TRUE, <<"E", "i", "B">>),
                      In(FALSE, <<"1">>, FALSE, <<>>, TRUE, <<"x">>)}}

ConcSizes ==
  {New(NewInt(1500), Metric), New(MkInt(TRUE, NatExp(NatOfInt(1024), 2)), Binary),
   New(NewInt(1), 1023)}

\* the calls a caller may make, each on values of its own
ConcCalls ==
  {Call("Parse", s, NilSize, NilSize) : s \in ConcTexts}
  \cup {Call("String", <<>>, sz, NilSize) : sz \in ConcSizes}
  \cup {Call("Add", <<>>, New(MaxInt64, Binary), New(NewInt(1), Metric))}

(***************************************************************************)
(* The state: one call sequence of a client of the package.                *)
(*   pc    where the client is                                             *)
(*   inp   the parts the text was built from                               *)
(*   text  the text given to Parse, or the data given to a decoder         *)
(*   res   what Parse returned                                             *)
(*   size  the client's Size                                               *)
(*   out   what String, Format or an encoder returned                      *)
(*   y     the client's second Size: the argument of Cmp, Equal, Add, Sub, *)
(*         or the receiver of a decoder                                    *)
(*   prev  size and y before the last mutating method or decoder           *)
(*   op    the last mutating method, Format or decoder, and its argument   *)
(*   steps how many mutating methods have been called                      *)
(*   ret   what the last method that only reads, or decoder, has returned  *)
(*   pkg   the package-level data                                          *)
(*   calls the calls that run at the same time, and how far each has come  *)
(***************************************************************************)
VARIABLES pc, inp, text, res, size, out, y, prev, op, steps, ret, pkg, calls

vars == <<pc, inp, text, res, size, out, y, prev, op, steps, ret, pkg, calls>>

arith == <<y, prev, op, steps, ret>>

conc == <<pkg, calls>>

NoPrev == [s |-> NilSize, y |-> NilSize]
NoOp == [name |-> "", arg |-> IntZero]
NoRet == [op |-> "", val |-> 0]

NoOutput == [panic |-> "", text |-> <<>>]

Init ==
  /\ res = NoResult
  /\ out = NoOutput
  /\ prev = NoPrev
  /\ op = NoOp
  /\ steps = 0
  /\ ret = NoRet
  /\ pkg = PkgInit
  /\ \/ /\ pc = "parse"
        /\ inp \in Inputs
        /\ text = Render(inp)
        /\ size = NilSize
        /\ y = NilSize
        /\ calls = <<>>
     \/ /\ pc = "new"
        /\ inp = NoInput
        /\ text = <<>>
        /\ \E bytes \in ByteCounts, base \in AnyBases : size = New(bytes, base)
        /\ y = NilSize
        /\ calls = <<>>
     \/ /\ pc = "arith"
        /\ inp = NoInput
        /\ text = <<>>
        /\ size \in ArithSizes
        /\ y \in ArithSizes
        /\ calls = <<>>
     \/ /\ pc = "new3"
        /\ inp = NoInput
        /\ text = <<>>
        /\ \E bytes \in FormatCounts, unit \in ValidUnits : size = FromInt64(bytes, unit)
        /\ y = NilSize
        /\ calls = <<>>
     \/ /\ pc = "decode"
        /\ inp = NoInput
        /\ text \in DecodeTexts
        /\ size = NilSize
        /\ y \in Receivers
        /\ calls = <<>>
     \/ /\ pc = "conc"
        /\ inp = NoInput
        /\ text = <<>>
        /\ size = NilSize
        /\ y = NilSize
        /\ calls \in [1..MaxCallers -> ConcCalls]

\* size, err := Parse(text)
DoParse ==
  /\ pc = "parse"
  /\ res' = Parse(text)
  /\ size' = res'.size
  /\ pc' = "parsed"
  /\ UNCHANGED <<inp, text, out>>
  /\ UNCHANGED arith
  /\ UNCHANGED conc

\* the same call in the earlier revision
DoParse2 ==
  /\ pc = "parse"
  /\ \E undef \in UndefVals : res' = Parse2(text, undef)
  /\ size' = res'.size
  /\ pc' = "parsed2"
  /\ UNCHANGED <<inp, text, out>>
  /\ UNCHANGED arith
  /\ UNCHANGED conc

\* the same call in the revision with units
DoParse3 ==
  /\ pc = "parse"
  /\ res' = Parse3(text)
  /\ size' = res'.size
  /\ pc' = "parsed3"
  /\ UNCHANGED <<inp, text, out>>
  /\ UNCHANGED arith
  /\ UNCHANGED conc

\* out := size.Format(prec), on a Size from FromInt64 or from Parse of one of
\* the texts of the tests; String is Format(-1)
DoFormat ==
  /\ \/ pc = "new3"
     \/ pc = "parsed3" /\ res.ok /\ inp \in EdgeInputs
  /\ \E prec \in Precisions :
       /\ out' = [panic |-> "", text |-> Format(size, prec)]
       /\ op' = [name |-> "Format", arg |-> NewInt(prec)]
  /\ pc' = "formatted"
  /\ UNCHANGED <<inp, text, res, size, y, prev, steps, ret>>
  /\ UNCHANGED conc

\* _, err := Parse(out), in the revision with units; size is kept beside the
\* result
DoReparse3 ==
  /\ pc = "formatted"
  /\ text' = out.text
  /\ res' = Parse3(out.text)
  /\ pc' = "reparsed3"
  /\ UNCHANGED <<inp, size, out>>
  /\ UNCHANGED arith
  /\ UNCHANGED conc

\* out := size.String()
DoString ==
  /\ pc \in {"new", "parsed"}
  /\ size # NilSize
  /\ out' = String(size)
  /\ pc' = "printed"
  /\ UNCHANGED <<inp, text, res, size>>
  /\ UNCHANGED arith
  /\ UNCHANGED conc

\* _, err := Parse(out): the printed text is parsed again; size is kept
\* beside the result
DoReparse ==
  /\ pc = "printed"
  /\ out.panic = ""
  /\ text' = out.text
  /\ res' = Parse(out.text)
  /\ pc' = "reparsed"
  /\ UNCHANGED <<inp, size, out>>
  /\ UNCHANGED arith
  /\ UNCHANGED conc

\* a mutating method has left the receiver s2 and the argument y2
Mutated(name, arg, s2, y2, pc2) ==
  /\ size' = s2
  /\ y' = y2
  /\ prev' = [s |-> size, y |-> y]
  /\ op' = [name |-> name, arg |-> arg]
  /\ steps' = steps + 1
  /\ pc' = pc2
  /\ UNCHANGED <<inp, text, res, out, ret>>
  /\ UNCHANGED conc

\* size.Add(y)
DoAdd ==
  /\ pc = "arith"
  /\ steps < MaxOps
  /\ LET r == Add(size, y) IN Mutated("Add", IntZero, r.s, r.y, "arith")

\* size.Sub(y)
DoSub ==
  /\ pc = "arith"
  /\ steps < MaxOps
  /\ LET r == Sub(size, y) IN Mutated("Sub", IntZero, r.s, r.y, "arith")

\* size.Neg()
DoNeg ==
  /\ pc = "arith"
  /\ steps < MaxOps
  /\ Mutated("Neg", IntZero, Neg(size), y, "arith")

\* size.SetInt64(bytes)
DoSetInt64 ==
  /\ pc = "arith"
  /\ steps < MaxOps
  /\ \E bytes \in SetCounts :
       Mutated("SetInt64", bytes, SetInt64(size, bytes), y, "arith")

\* size.Sub(y) in the earlier revision
DoSub2 ==
  /\ pc = "arith"
  /\ steps < MaxOps
  /\ LET r == Sub2(size, y) IN Mutated("Sub2", IntZero, r.s, r.y, "arith2")

\* size.Neg() in the earlier revision
DoNeg2 ==
  /\ pc = "arith"
  /\ steps < MaxOps
  /\ Mutated("Neg2", IntZero, Neg2(size), y, "arith2")

\* a method that only reads has returned val
Observed(name, val) ==
  /\ ret' = [op |-> name, val |-> val]
  /\ pc' = "observed"
  /\ UNCHANGED <<inp, text, res, size, out, y, prev, op, steps>>
  /\ UNCHANGED conc

\* size.Cmp(y)
DoCmp == pc = "arith" /\ Observed("Cmp", Cmp(size, y))

\* size.Equal(y)
DoEqual == pc = "arith" /\ Observed("Equal", Equal(size, y))

\* size.IsZero()
DoIsZero == pc = "arith" /\ Observed("IsZero", IsZero(size))

\* size.Sign()
DoSign == pc = "arith" /\ Observed("Sign", Sign(size))

\* size.Int64()
DoInt64 ==
  /\ pc \in {"new", "parsed", "arith"}
  /\ size # NilSize
  /\ Observed("Int64", Int64(size))

\* an encoder has returned r, and the client is at pc2
Encoded(r, pc2) ==
  /\ out' = r
  /\ pc' = pc2
  /\ UNCHANGED <<inp, text, res, size>>
  /\ UNCHANGED arith
  /\ UNCHANGED conc

\* out, _ := size.MarshalText()
DoMarshalText == pc = "new" /\ Encoded(MarshalText(size), "text")

\* out, _ := size.MarshalJSON()
DoMarshalJSON == pc = "new" /\ Encoded(MarshalJSON(size), "json")

\* out, _ := size.Value()
DoValue == pc = "new" /\ Encoded(Value(size), "value")

\* the receiver of a decoder: y, or a new Size for what an encoder returned
Receiver == IF pc = "decode" THEN y ELSE ZeroSize

\* the data given to a decoder: text, or what an encoder returned
Data == IF pc = "decode" THEN text ELSE out.text

\* a decoder called with arg on Receiver has returned r
DecodedBy(name, arg, r) ==
  /\ y' = r.s
  /\ prev' = [s |-> size, y |-> Receiver]
  /\ op' = [name |-> name, arg |-> arg]
  /\ ret' = [op |-> name, val |-> [err |-> r.err, panic |-> r.panic]]
  /\ pc' = IF pc = "decode" THEN "decoded" ELSE "restored"
  /\ UNCHANGED <<inp, text, res, size, out, steps>>
  /\ UNCHANGED conc

\* err := y.UnmarshalText(data)
DoUnmarshalText ==
  /\ pc = "decode" \/ (pc = "text" /\ out.panic = "")
  /\ DecodedBy("UnmarshalText", Data, UnmarshalText(Receiver, Data))

\* err := y.UnmarshalJSON(data)
DoUnmarshalJSON ==
  /\ pc = "decode" \/ (pc = "json" /\ out.panic = "")
  /\ DecodedBy("UnmarshalJSON", Data, UnmarshalJSON(Receiver, Data))

\* the same call in the earlier revision
DoUnmarshalJSON2 ==
  /\ pc = "decode"
  /\ \E undef \in UndefVals :
       DecodedBy("UnmarshalJSON2", Data, UnmarshalJSON2(Receiver, Data, undef))

\* err := y.Scan(value): the data as a string or as bytes, or another value
DoScan ==
  /\ pc = "decode" \/ (pc = "value" /\ out.panic = "")
  /\ \E value \in {Dyn("string", Data)}
                  \cup (IF pc = "decode" THEN {Dyn("[]byte", Data)} \cup OtherValues
                        ELSE {}) :
       DecodedBy("Scan", value, Scan(Receiver, value))

\* a step of call c has left the package-level data p and the call as c2;
\* overlapped records that another call was under way at one of its steps
Stepped(c, p, c2) ==
  /\ pkg' = p
  /\ calls' = [calls EXCEPT ![c] =
                 [c2 EXCEPT !.overlapped =
                    @ \/ \E d \in DOMAIN calls :
                           d # c /\ calls[d].at \notin {"start", "done"}]]
  /\ UNCHANGED <<pc, inp, text, res, size, out>>
  /\ UNCHANGED arith

Returned(call, r) == [call EXCEPT !.at = "done", !.result = r]

\* Parse, up to the suffix
ConcParseScan(c) ==
  /\ pc = "conc"
  /\ calls[c].kind = "Parse" /\ calls[c].at = "start"
  /\ LET call == calls[c]
         r    == parseScan(call.text, call.loc)
     IN  Stepped(c, pkg,
                 IF r.err # NoErr
                 THEN Returned(call, Failed([msg |-> "can't convert to size",
                                             quoted |-> call.text, cause |-> r.err]))
                 ELSE [call EXCEPT !.at = "scale", !.loc = r.loc])

\* Parse, the scalar
ConcParseScale(c) ==
  /\ pc = "conc"
  /\ calls[c].kind = "Parse" /\ calls[c].at = "scale"
  /\ LET r == scaleExp(pkg, calls[c].loc)
     IN  Stepped(c, r.pkg, [calls[c] EXCEPT !.at = "number", !.loc = r.loc])

\* Parse, the number scaled
ConcParseNumber(c) ==
  /\ pc = "conc"
  /\ calls[c].kind = "Parse" /\ calls[c].at = "number"
  /\ LET r == scaleNumber(pkg, calls[c].loc)
     IN  Stepped(c, r.pkg, [calls[c] EXCEPT !.at = "return", !.loc = r.loc])

\* Parse, the result
ConcParseReturn(c) ==
  /\ pc = "conc"
  /\ calls[c].kind = "Parse" /\ calls[c].at = "return"
  /\ LET call == calls[c]
         r    == parseReturn(call.loc)
     IN  Stepped(c, pkg,
                 Returned(call,
                          IF r.err # NoErr
                          THEN Failed([msg |-> "can't convert to size",
                                       quoted |-> call.text, cause |-> r.err])
                          ELSE r))

\* String, the loop
ConcStringScale(c) ==
  /\ pc = "conc"
  /\ calls[c].kind = "String" /\ calls[c].at = "start"
  /\ LET r == stringScale(pkg, calls[c].size, calls[c].loc)
     IN  Stepped(c, r.pkg, [calls[c] EXCEPT !.at = "suffix", !.loc = r.loc])

\* String, the suffix and the result
ConcStringSuffix(c) ==
  /\ pc = "conc"
  /\ calls[c].kind = "String" /\ calls[c].at = "suffix"
  /\ Stepped(c, pkg, Returned(calls[c], stringSuffix(pkg, calls[c].loc)))

\* size.Add(y) on the values of call c
ConcAdd(c) ==
  /\ pc = "conc"
  /\ calls[c].kind = "Add" /\ calls[c].at = "start"
  /\ LET r == Add(calls[c].size, calls[c].y)
     IN  Stepped(c, pkg, [Returned(calls[c], r) EXCEPT !.size = r.s, !.y = r.y])

Next ==
  \/ DoParse \/ DoParse2 \/ DoParse3 \/ DoString \/ DoReparse
  \/ DoFormat \/ DoReparse3
  \/ DoMarshalText \/ DoMarshalJSON \/ DoValue
  \/ DoUnmarshalText \/ DoUnmarshalJSON \/ DoUnmarshalJSON2 \/ DoScan
  \/ DoAdd \/ DoSub \/ DoNeg \/ DoSetInt64 \/ DoSub2 \/ DoNeg2
  \/ DoCmp \/ DoEqual \/ DoIsZero \/ DoSign \/ DoInt64
  \/ \E c \in DOMAIN calls :
       \/ ConcParseScan(c) \/ ConcParseScale(c) \/ ConcParseNumber(c)
       \/ ConcParseReturn(c) \/ ConcStringScale(c) \/ ConcStringSuffix(c)
       \/ ConcAdd(c)

Spec == Init /\ [][Next]_vars

(***************************************************************************)
(* What the properties are stated with: the unit table as the package      *)
(* documents it, and the exact value of the text, computed from the parts  *)
(* the text was built from and never by division.                          *)
(***************************************************************************)
UnitPrefixes == <<"k", "m", "g", "t", "p", "e">>

\* <<suffix in lower case, exponent, base>>
UnitTable ==
  {<< <<>>, 0, Metric>>, << <<"b">>, 0, Metric>>}
  \cup {<< <<UnitPrefixes[e]>>, e, Metric>> : e \in 1..6}
  \cup {<< <<UnitPrefixes[e], "b">>, e, Metric>> : e \in 1..6}
  \cup {<< <<UnitPrefixes[e], "i", "b">>, e, Binary>> : e \in 1..6}

\* s is u written in some mix of upper and lower case
Spells(s, u) ==
  Len(s) = Len(u) /\ \A i \in 1..Len(u) : s[i] \in {u[i], ToUpperChar(u[i])}

Resolves(s) == \E u \in UnitTable : Spells(s, u[1])

UnitOf(s) == CHOOSE u \in UnitTable : Spells(s, u[1])

InpHasDigits == Len(inp.whole) + Len(inp.frac) > 0

DigitsNat(ds) == NatOfDigits([i \in 1..Len(ds) |-> DigitVal(ds[i])])

\* 10^len(F)
InpPrec == NatExp(<<10>>, Len(inp.frac))

\* |W.F * b^e| * 10^len(F), an integer
InpScaled ==
  LET u == UnitOf(inp.suffix)
  IN  NatMul(NatAdd(NatMul(DigitsNat(inp.whole), InpPrec), DigitsNat(inp.frac)),
             NatExp(NatOfInt(u[3]), u[2]))

\* the value, truncated toward zero and signed, lies in [-2^63, 2^63-1]
InpFits ==
  NatCmp(InpScaled,
         NatMul(IF inp.neg THEN NatAdd(TwoPow63, <<1>>) ELSE TwoPow63, InpPrec)) < 0

InpValid == InpHasDigits /\ Resolves(inp.suffix)

\* z is the exact value of the text truncated toward zero
IsTruncatedValue(z) ==
  /\ NatCmp(NatMul(z.abs, InpPrec), InpScaled) <= 0
  /\ NatCmp(InpScaled, NatMul(NatAdd(z.abs, <<1>>), InpPrec)) < 0
  /\ z.neg = (inp.neg /\ z.abs # <<>>)

Overflow == Err("value exceeds 64 bits")

(***************************************************************************)
(* C1: for every text [-]W[.F][ ]S with a digit in W or F and a suffix of  *)
(* the table, whose exact value W.F * b^e truncated toward zero fits in    *)
(* int64, Parse succeeds and returns exactly that truncated value.         *)
(***************************************************************************)
C1_ExactTruncatedValue ==
  (pc = "parsed" /\ InpValid /\ InpFits) =>
    res.ok /\ IsTruncatedValue(res.size.bytes)

\* "7.99999999999999999914 EiB" has been parsed to 2^63-1
C1_Witness ==
  /\ pc = "parsed"
  /\ inp.frac = <<"9", "9", "9", "9", "9", "9", "9", "9", "9", "9", "9", "9", "9",
                  "9", "9", "9", "9", "9", "1", "4">>
  /\ inp.suffix = <<"E", "i", "B">>
  /\ res.ok /\ res.size.bytes = MaxInt64

(***************************************************************************)
(* C2: Parse fails with "value exceeds 64 bits" exactly when the value of  *)
(* a well-formed text, truncated toward zero and signed, lies outside      *)
(* [-2^63, 2^63-1]; a byte count it returns is never outside that range.   *)
(***************************************************************************)
C2_OverflowExactlyOutsideInt64 ==
  pc = "parsed" =>
    /\ (~res.ok /\ res.err.cause = Overflow) <=> (InpValid /\ ~InpFits)
    /\ res.ok => /\ res.size # NilSize
                 /\ NatCmp(res.size.bytes.abs,
                           IF res.size.bytes.neg THEN TwoPow63
                           ELSE NatSub(TwoPow63, <<1>>)) <= 0

\* "-8.000000000000000001 EiB", one byte below -2^63, has been refused
C2_Witness ==
  /\ pc = "parsed"
  /\ inp.neg /\ inp.whole = <<"8">> /\ Len(inp.frac) = 18
  /\ inp.suffix = <<"E", "i", "B">>
  /\ ~res.ok /\ res.err.cause = Overflow

\* the text without its sign
Unsigned == Render([inp EXCEPT !.neg = FALSE])

(***************************************************************************)
(* C3: the sign is applied last.  In both revisions of parse, when the     *)
(* text without its "-" is accepted with (n, base), the text with it is    *)
(* accepted with (-n, base).                                               *)
(***************************************************************************)
C3_SignAppliedLast ==
  (pc \in {"parsed", "parsed2"} /\ inp.neg) =>
    LET u == IF pc = "parsed" THEN Parse(Unsigned) ELSE Parse2(Unsigned, IntZero)
    IN  u.ok => res.ok /\ res.size = New(IntNeg(u.size.bytes), u.size.Base)

\* C3 in the later revision alone (pointer result, lines 99-191), which
\* negates the scaled value as its last step
C3_SignAppliedLastLater ==
  (pc = "parsed" /\ inp.neg) =>
    LET u == Parse(Unsigned)
    IN  u.ok => res.ok /\ res.size = New(IntNeg(u.size.bytes), u.size.Base)

\* "-0000.1 kB" has been parsed by the later revision to -100
C3_WitnessLater ==
  /\ pc = "parsed"
  /\ inp.neg /\ inp.whole = <<"0", "0", "0", "0">> /\ inp.frac = <<"1">>
  /\ res.ok /\ res.size = New(NewInt(-100), Metric)

(***************************************************************************)
(* C4: a text with no digit before the suffix is refused: the empty text   *)
(* with "empty string", every other one with "must start with a number";   *)
(* no Size is returned.                                                    *)
(***************************************************************************)
C4_NoDigitsRejected ==
  (pc = "parsed" /\ ~InpHasDigits) =>
    /\ ~res.ok
    /\ res.size = NilSize
    /\ res.err.cause = Err(IF Len(text) = 0 THEN "empty string"
                           ELSE "must start with a number")

\* "-. B" has been refused
C4_Witness ==
  /\ pc = "parsed"
  /\ text = <<"-", ".", " ", "B">>
  /\ ~res.ok /\ res.err.cause = Err("must start with a number")

(***************************************************************************)
(* C5: when what follows the number and at most one space is no suffix of  *)
(* the table, Parse fails with the invalid-unit error, which quotes        *)
(* exactly that remaining text, in the case it was written in.             *)
(***************************************************************************)
C5_InvalidUnitQuotesRemainder ==
  (pc = "parsed" /\ InpHasDigits /\ ~Resolves(inp.suffix)) =>
    /\ ~res.ok
    /\ res.err.cause = [msg |-> "is not a valid byte quantity", quoted |-> inp.suffix]

\* "1 tUb" has been refused, quoting "tUb"
C5_Witness ==
  /\ pc = "parsed"
  /\ text = <<"1", " ", "t", "U", "b">>
  /\ ~res.ok /\ res.err.cause.quoted = <<"t", "U", "b">>

(***************************************************************************)
(* C6: suffix resolution is case-insensitive and total on the closed set   *)
(* of the table: the number 1 before a suffix of exponent e and base b, in *)
(* any mix of cases, parses to b^e; before any other text (such as "ki" or *)
(* "gi") it is refused as an invalid unit.                                 *)
(***************************************************************************)
C6_SuffixResolution ==
  (pc = "parsed" /\ ~inp.neg /\ inp.whole = <<"1">> /\ ~inp.dot) =>
    IF Resolves(inp.suffix)
    THEN LET u == UnitOf(inp.suffix)
         IN  /\ res.ok
             /\ res.size.bytes = MkInt(FALSE, NatExp(NatOfInt(u[3]), u[2]))
    ELSE /\ ~res.ok
         /\ res.err.cause.msg = "is not a valid byte quantity"

\* "1KIb" has been parsed to 1024
C6_Witness ==
  /\ pc = "parsed"
  /\ text = <<"1", "K", "I", "b">>
  /\ res.ok /\ res.size.bytes = NewInt(1024)

BinaryUnits == {u \in UnitTable : u[3] = Binary}

(***************************************************************************)
(* C7: the Base of a parsed Size is decided by the suffix alone: Binary    *)
(* exactly when the suffix is one of KiB..EiB (in any case), Metric        *)
(* otherwise, whatever the number.                                         *)
(***************************************************************************)
C7_BaseFromSuffixAlone ==
  (pc = "parsed" /\ res.ok) =>
    res.size.Base = IF \E u \in BinaryUnits : Spells(inp.suffix, u[1])
                    THEN Binary ELSE Metric

\* "0mib" has been parsed to zero bytes, Binary
C7_Witness ==
  /\ pc = "parsed"
  /\ text = <<"0", "m", "i", "b">>
  /\ res.ok /\ res.size = New(IntZero, Binary)

\* the text without its redundant zeros: no leading zero in the whole part,
\* no trailing zero in the fractional part, no decimal point before nothing
WithoutZeros ==
  LET w == TrimLeft(inp.whole, "0")
      f == TrimRight(inp.frac, "0")
  IN  Render([inp EXCEPT !.whole = IF Len(w) = 0 /\ Len(f) = 0 THEN <<"0">> ELSE w,
                         !.frac = f, !.dot = Len(f) # 0])

HasRedundantZeros == InpHasDigits /\ WithoutZeros # text

(***************************************************************************)
(* C8: Parse is insensitive to redundant zeros: a text with leading zeros  *)
(* in the whole part, trailing zeros in the fractional part, or a decimal  *)
(* point before nothing or zeros only, is accepted exactly when the text   *)
(* without them is, with the same byte count and Base.                     *)
(***************************************************************************)
C8_RedundantZeros ==
  (pc = "parsed" /\ HasRedundantZeros) =>
    LET u == Parse(WithoutZeros)
    IN  /\ res.ok = u.ok
        /\ res.size = u.size
        /\ ~res.ok => res.err.cause = u.err.cause

\* "0001.0000 kB" has been parsed to 1000 bytes, as "1 kB" is
C8_Witness ==
  /\ pc = "parsed"
  /\ text = <<"0", "0", "0", "1", ".", "0", "0", "0", "0", " ", "k", "B">>
  /\ WithoutZeros = <<"1", " ", "k", "B">>
  /\ res.ok /\ res.size = New(NewInt(1000), Metric)

(***************************************************************************)
(* C9: the byte count survives String and Parse: for every int64 byte      *)
(* count n and Base Metric or Binary, Parse of the text String prints      *)
(* succeeds with a Size of n bytes.                                        *)
(***************************************************************************)
C9_ByteCountRoundTrip ==
  (pc = "reparsed" /\ size.Base \in {Metric, Binary}) =>
    res.ok /\ res.size.bytes = size.bytes

\* -2^63 Binary has been printed as "-8 EiB" and parsed back
C9_Witness ==
  /\ pc = "reparsed"
  /\ size = New(MinInt64, Binary)
  /\ text = <<"-", "8", " ", "E", "i", "B">>
  /\ res.ok /\ res.size.bytes = MinInt64

\* b^e divides n
UnitDivides(b, e, n) == NatDivMod(n.abs, NatExp(NatOfInt(b), e)).r = <<>>

(***************************************************************************)
(* C10: String scales to the largest exact unit: for n bytes in base b the *)
(* text is "m S" with S the suffix of exponent e in the family of b,       *)
(* m * b^e = n, and e the largest of 0..6 such that b^e divides n (0 when  *)
(* n is 0).                                                                *)
(***************************************************************************)
C10_LargestExactUnit ==
  (pc = "printed" /\ size.Base \in {Metric, Binary}) =>
    /\ out.panic = ""
    /\ \E e \in 0..6 :
         /\ UnitDivides(size.Base, e, size.bytes)
         /\ size.bytes = IntZero => e = 0
         /\ size.bytes # IntZero =>
              \A e2 \in (e + 1)..6 : ~UnitDivides(size.Base, e2, size.bytes)
         /\ \E m \in {SetString(SubSeq(out.text, 1, k)).val : k \in 1..Len(out.text)} :
              /\ IntMul(m, MkInt(FALSE, NatExp(NatOfInt(size.Base), e))) = size.bytes
              /\ out.text = AppendInt(m) \o <<" ">>
                            \o (IF size.Base = Metric THEN metricSuffixes
                                ELSE binarySuffixes)[e + 1]

\* 1000 PB has been printed as "1 EB"
C10_Witness ==
  /\ pc = "printed"
  /\ size = New(MkInt(FALSE, NatExp(<<1000>>, 6)), Metric)
  /\ out.text = <<"1", " ", "E", "B">>

\* a decimal integer: an optional "-", then digits, without a leading zero
\* and without a negative zero
IsSignedDecimal(num) ==
  LET digits == IF Len(num) > 0 /\ num[1] = "-" THEN Tail(num) ELSE num
  IN  /\ Len(digits) > 0
      /\ \A i \in 1..Len(digits) : IsDigit(digits[i])
      /\ Len(digits) > 1 => digits[1] # "0"
      /\ digits = <<"0">> => digits = num

AllSuffixes ==
  {metricSuffixes[i] : i \in 1..Len(metricSuffixes)}
  \cup {binarySuffixes[i] : i \in 1..Len(binarySuffixes)}

\* the base String scales by
ScaleBase(s) == IF s.Base = Binary THEN Binary ELSE Metric

(***************************************************************************)
(* C11: what String returns is a signed decimal integer, one space and a   *)
(* suffix of the tables: the suffix is never left out, there is no decimal *)
(* point, and a byte count that is zero or no multiple of the base carries *)
(* the suffix "B".                                                         *)
(***************************************************************************)
C11_StringShape ==
  (pc = "printed" /\ out.panic = "") =>
    LET t == out.text
        spaces == {i \in 1..Len(t) : t[i] = " "}
    IN  /\ Cardinality(spaces) = 1
        /\ \A i \in 1..Len(t) : t[i] # "."
        /\ LET k == CHOOSE i \in spaces : TRUE
               suffix == SubSeq(t, k + 1, Len(t))
           IN  /\ IsSignedDecimal(SubSeq(t, 1, k - 1))
               /\ suffix \in AllSuffixes
               /\ (size.bytes = IntZero \/ ~UnitDivides(ScaleBase(size), 1, size.bytes))
                    => suffix = <<"B">>

\* zero bytes in base Binary have been printed as "0 B"
C11_Witness ==
  /\ pc = "printed"
  /\ size = New(IntZero, Binary)
  /\ out = [panic |-> "", text |-> <<"0", " ", "B">>]

(***************************************************************************)
(* C12: String returns a text, without a panic and without an index        *)
(* outside the suffix table, for every int64 byte count when the Base is   *)
(* unset, Metric or Binary; an unset Base prints as Metric does; String    *)
(* panics exactly when the Base is any other value.                        *)
(***************************************************************************)
C12_StringTotal ==
  pc = "printed" =>
    /\ out.panic # "" <=> size.Base \notin {0, Metric, Binary}
    /\ out.panic # "index out of range"
    /\ size.Base = 0 => out = String(New(size.bytes, Metric))

\* -2^63 bytes with an unset Base have been printed in plain bytes
C12_Witness ==
  /\ pc = "printed"
  /\ size = New(MinInt64, 0)
  /\ out.panic = ""
  /\ out.text = AppendInt(MinInt64) \o <<" ", "B">>

\* -1, 0 or +1 as the integer z is negative, zero or positive
SignOf(z) == IF z.abs = <<>> THEN 0 ELSE IF z.neg THEN -1 ELSE 1

\* the exact difference a - b, of any width
Difference(a, b) == IntAdd(a, IntNeg(b))

\* z lies in [-2^63, 2^63-1]
InInt64Range(z) ==
  NatCmp(z.abs, IF z.neg THEN TwoPow63 ELSE NatSub(TwoPow63, <<1>>)) <= 0

\* a and b differ by a multiple of 2^64 (by 0 or 2^64, for values this near)
SameMod64(a, b) == Difference(a, b).abs \in {<<>>, NatAdd(TwoPow63, TwoPow63)}

(***************************************************************************)
(* C13: Cmp returns the sign of the exact difference of the two byte       *)
(* counts, -1, 0 or +1, whatever the two Bases and also at the ends of the *)
(* int64 range, and Cmp(a, b) = -Cmp(b, a).                                *)
(***************************************************************************)
C13_CmpIsSignOfDifference ==
  (pc = "observed" /\ ret.op = "Cmp") =>
    /\ ret.val = SignOf(Difference(size.bytes, y.bytes))
    /\ ret.val = -Cmp(y, size)

\* -2^63 has been compared with 2^63-1
C13_Witness ==
  /\ pc = "observed" /\ ret.op = "Cmp" /\ ret.val = -1
  /\ size.bytes = MinInt64 /\ y.bytes = MaxInt64

(***************************************************************************)
(* C14: IsZero, Equal and Sign depend on the byte counts alone: IsZero     *)
(* holds iff the count is 0, Equal iff the two counts are the same (iff    *)
(* Cmp is 0), and Sign is -1, 0 or +1 as the count is negative, zero or    *)
(* positive.                                                               *)
(***************************************************************************)
C14_DerivedPredicates ==
  pc = "observed" =>
    /\ ret.op = "IsZero" => ret.val = (size.bytes.abs = <<>>)
    /\ ret.op = "Equal" => /\ ret.val = (size.bytes = y.bytes)
                           /\ ret.val = (Cmp(size, y) = 0)
    /\ ret.op = "Sign" => ret.val = SignOf(size.bytes)

\* 123 bytes Metric and 123 bytes Binary have been found equal
C14_Witness ==
  /\ pc = "observed" /\ ret.op = "Equal" /\ ret.val
  /\ size = New(NewInt(123), Metric) /\ y = New(NewInt(123), Binary)

(***************************************************************************)
(* C15: Add leaves in the receiver the sum of the two byte counts, wrapped *)
(* modulo 2^64 into the int64 range; added to zero a size gives its own    *)
(* count, and -2^63 and 2^63-1 add up to -1 in either order.               *)
(***************************************************************************)
C15_AddWraps ==
  op.name = "Add" =>
    /\ InInt64Range(size.bytes)
    /\ SameMod64(size.bytes, IntAdd(prev.s.bytes, prev.y.bytes))
    /\ prev.s.bytes = IntZero => size.bytes = prev.y.bytes
    /\ {prev.s.bytes, prev.y.bytes} = {MinInt64, MaxInt64} => size.bytes = NewInt(-1)

\* 1 has been added to 2^63-1, which wrapped to -2^63
C15_Witness ==
  /\ op.name = "Add"
  /\ prev.s.bytes = MaxInt64 /\ prev.y.bytes = NewInt(1)
  /\ size.bytes = MinInt64

(***************************************************************************)
(* C16: Sub subtracts: in both revisions, after s.Sub(y) the byte count of *)
(* s is its old count minus that of y, wrapped into the int64 range.       *)
(***************************************************************************)
C16_SubSubtracts ==
  op.name \in {"Sub", "Sub2"} =>
    /\ InInt64Range(size.bytes)
    /\ SameMod64(size.bytes, Difference(prev.s.bytes, prev.y.bytes))

\* C16 in the later revision alone (line 61)
C16_SubSubtractsLater ==
  op.name = "Sub" =>
    /\ InInt64Range(size.bytes)
    /\ SameMod64(size.bytes, Difference(prev.s.bytes, prev.y.bytes))

\* C16 in the later revision: s.Add(y); s.Sub(y) restores the byte count of s
C16_AddThenSubRestoresLater ==
  [][(op.name = "Add" /\ op'.name = "Sub") => size'.bytes = prev.s.bytes]_vars

\* in the later revision 2^63-1 has been subtracted from -2^63, which wrapped to 1
C16_WitnessLater ==
  /\ op.name = "Sub"
  /\ prev.s.bytes = MinInt64 /\ prev.y.bytes = MaxInt64
  /\ size.bytes = NewInt(1)

(***************************************************************************)
(* C17: Neg negates: in both revisions, after s.Neg() the byte count of s  *)
(* is the negation of its old count; -2^63 wraps to itself and zero stays  *)
(* zero.                                                                   *)
(***************************************************************************)
C17_NegNegates ==
  op.name \in {"Neg", "Neg2"} =>
    size.bytes = IF prev.s.bytes = MinInt64 THEN MinInt64 ELSE IntNeg(prev.s.bytes)

\* C17 in the later revision alone (line 64)
C17_NegNegatesLater ==
  op.name = "Neg" =>
    size.bytes = IF prev.s.bytes = MinInt64 THEN MinInt64 ELSE IntNeg(prev.s.bytes)

\* C17 in the later revision: Neg twice restores the byte count
C17_NegTwiceRestoresLater ==
  [][(op.name = "Neg" /\ op'.name = "Neg" /\ steps' = steps + 1)
       => size'.bytes = prev.s.bytes]_vars

\* in the later revision 2^63-1 has been negated
C17_WitnessLater ==
  /\ op.name = "Neg"
  /\ prev.s.bytes = MaxInt64
  /\ size.bytes = IntAdd(MinInt64, NewInt(1))

(***************************************************************************)
(* C18: Add, Sub, Neg and SetInt64 change the byte count of the receiver   *)
(* and nothing else: its Base stays, whatever the Base of the argument,    *)
(* and the argument of Add and Sub is left as it was.                      *)
(***************************************************************************)
C18_MutatorsFrame ==
  op.name \in {"Add", "Sub", "Neg", "SetInt64"} =>
    /\ DOMAIN size = DOMAIN prev.s
    /\ size.Base = prev.s.Base
    /\ y = prev.y

\* 456 bytes Binary have been added to 123 bytes Metric
C18_Witness ==
  /\ op.name = "Add"
  /\ prev.s = New(NewInt(123), Metric) /\ prev.y = New(NewInt(456), Binary)
  /\ size = New(NewInt(579), Metric) /\ y = New(NewInt(456), Binary)

(***************************************************************************)
(* C19: after any sequence of New, Parse, SetInt64, Add, Sub and Neg the   *)
(* byte count of every Size lies in [-2^63, 2^63-1], and Int64 returns the *)
(* count those operations established last.                                *)
(***************************************************************************)
C19_CountInRange ==
  /\ size # NilSize => InInt64Range(size.bytes)
  /\ y # NilSize => InInt64Range(y.bytes)
  /\ (pc = "observed" /\ ret.op = "Int64") =>
       /\ ret.val = size.bytes
       /\ op.name = "SetInt64" => ret.val = op.arg
       /\ (op.name = "" /\ res.ok) => ret.val = res.size.bytes

\* Int64 has returned 2^63-1 after a sequence that ended with SetInt64(2^63-1)
C19_Witness ==
  /\ pc = "observed" /\ ret.op = "Int64"
  /\ steps = 2 /\ op = [name |-> "SetInt64", arg |-> MaxInt64]
  /\ ret.val = MaxInt64

(***************************************************************************)
(* C20: every failure of Parse is the error "can't convert <input> to      *)
(* size: <cause>", which quotes the whole input and whose cause is the     *)
(* empty-string, must-start-with-a-number, invalid-unit or overflow error; *)
(* no Size is returned with it.                                            *)
(***************************************************************************)
C20_FailureWrapsInput ==
  (pc \in {"parsed", "reparsed"} /\ ~res.ok) =>
    /\ res.size = NilSize
    /\ res.err.msg = "can't convert to size"
    /\ res.err.quoted = text
    /\ \/ res.err.cause \in {Err("empty string"), Err("must start with a number"),
                             Overflow}
       \/ res.err.cause.msg = "is not a valid byte quantity"

\* "8.0 EiB" has been refused
C20_Witness ==
  /\ pc = "parsed"
  /\ text = <<"8", ".", "0", " ", "E", "i", "B">>
  /\ res = [ok |-> FALSE, size |-> NilSize,
            err |-> [msg |-> "can't convert to size", quoted |-> text,
                     cause |-> Overflow]]

\* what call c returns when it runs alone
Alone(call) ==
  CASE call.kind = "Parse" -> Parse(call.text)
    [] call.kind = "String" -> String(call.size)
    [] call.kind = "Add" -> Add(New(MaxInt64, Binary), New(NewInt(1), Metric))

\* C21: no call writes to the package-level data (ten, tenPow3, twoPow10 and
\* the suffix tables keep their initial values), and under every interleaving
\* of the steps of concurrent calls on values of their own, each call returns
\* what it returns when it runs alone.
C21_NoSharedWrites ==
  /\ pkg = PkgInit
  /\ \A c \in DOMAIN calls :
       calls[c].at = "done" => calls[c].result = Alone(calls[c])

\* two Parse calls, one scaling by a power of 1000 and one by a power of
\* 1024, have returned after steps of each were taken while the other was
\* under way
C21_Witness ==
  /\ pc = "conc"
  /\ \A c \in DOMAIN calls : calls[c].kind = "Parse" /\ calls[c].at = "done"
  /\ \E c, d \in DOMAIN calls :
       /\ c # d
       /\ calls[c].overlapped /\ calls[d].overlapped
       /\ calls[c].result.ok /\ calls[d].result.ok
       /\ calls[c].loc.exp > 0 /\ calls[d].loc.exp > 0
       /\ calls[c].loc.base # calls[d].loc.base

NonNegative == Err("values must be non-negative")

\* C22: in the revision with units, Parse of a non-empty text whose first
\* character is "-" fails with "values must be non-negative" whatever follows
\* the sign: a missing number, an unknown suffix or a value out of range is
\* not what is reported.
C22_NegativeRejectedFirst ==
  (pc = "parsed3" /\ Len(text) > 0 /\ text[1] = "-")
    => /\ ~res.ok
       /\ res.err.cause = NonNegative
       /\ res.err.quoted = text
       /\ size = FromInt64(IntZero, IntZero)

\* "-1 tUb", a negative number before an unknown suffix, has been rejected
C22_Witness ==
  /\ pc = "parsed3"
  /\ text = <<"-", "1", " ", "t", "U", "b">>
  /\ res.err.cause = NonNegative

\* the units of a family from the largest to the smallest above Byte
MetricUnits == <<EB, PB, TB, GB, MB, KB>>
BinaryUnitSizes == <<EiB, PiB, TiB, GiB, MiB, KiB>>

\* the largest unit of the family that is at most the natural number n, and
\* Byte when there is none
LargestUnit(family, n) ==
  IF \E i \in 1..Len(family) : NatCmp(family[i].abs, n) <= 0
  THEN family[SetMin({i \in 1..Len(family) : NatCmp(family[i].abs, n) <= 0})]
  ELSE Byte

EndsWith(s, tail) ==
  Len(s) >= Len(tail) /\ SubSeq(s, Len(s) - Len(tail) + 1, Len(s)) = tail

\* C23: when the unit of a Size is Metric (Binary), Format uses the largest of
\* B, kB..EB (B, KiB..EiB) that is at most the absolute value of the byte
\* count, Byte below 1000 (1024), for every int64 byte count: the text ends
\* with that unit's suffix, -2^63 included.
C23_AutoUnitSelection ==
  (pc = "formatted" /\ size.unit \in {MetricAuto, BinaryAuto})
    => LET expected == LargestUnit(IF size.unit = MetricAuto THEN MetricUnits
                                   ELSE BinaryUnitSizes, size.bytes.abs)
       IN  /\ inferUnit(size.bytes, size.unit) = expected
           /\ expected # Byte => EndsWith(out.text, <<" ">> \o suffixOf(expected))

\* the unit is Byte, or automatic with a byte count below its first threshold
InPlainBytes(s) ==
  \/ s.unit = Byte
  \/ s.unit = MetricAuto /\ NatCmp(s.bytes.abs, KB.abs) < 0
  \/ s.unit = BinaryAuto /\ NatCmp(s.bytes.abs, KiB.abs) < 0

\* C24: when the unit Format selects is Byte, the text is the decimal
\* rendering of the byte count and nothing else: an optional "-" and digits,
\* no decimal point, no space, no suffix, whatever the precision; read back as
\* a decimal number it is the byte count (lossless up to 2^63 - 1).
C24_ExactBytes ==
  (pc = "formatted" /\ InPlainBytes(size))
    => /\ IsSignedDecimal(out.text)
       /\ SetString(out.text).val = size.bytes
       /\ out.text = AppendInt(size.bytes)

\* 2^63 - 1 with the unit Byte has been formatted with precision 2
C24_Witness ==
  /\ pc = "formatted"
  /\ size = FromInt64(MaxInt64, Byte)
  /\ op.arg = NewInt(2)
  /\ out.text = <<"9", "2", "2", "3", "3", "7", "2", "0", "3", "6", "8", "5", "4", "7",
                  "7", "5", "8", "0", "7">>

\* C25: for every byte count n >= 0 and every unit, Parse of the text of
\* Format(-1) succeeds and returns the byte count n.
C25_FormatParseRoundTrip ==
  (pc = "reparsed3" /\ op.name = "Format" /\ op.arg = NewInt(-1) /\ ~size.bytes.neg)
    => res.ok /\ res.size.bytes = size.bytes

Scanned == pc = "decoded" /\ op.name = "Scan"

\* C26: Scan takes three dynamic types: an int64 v makes the receiver
\* (v bytes, Metric) and nil is returned; a string or a byte string makes the
\* receiver the result of Parse on its text, and Scan returns what Parse
\* returns; a value of any other type gives a type-mismatch error and leaves
\* the receiver as it was.
C26_ScanTypes ==
  Scanned =>
    CASE op.arg.type = "int64" ->
           /\ y = New(op.arg.v, Metric)
           /\ ret.val.err = NoErr /\ ret.val.panic = ""
      [] op.arg.type \in {"string", "[]byte"} ->
           LET r == Parse(op.arg.v)
           IN  /\ ret.val.panic = ""
               /\ r.ok => y = r.size /\ ret.val.err = NoErr
               /\ ~r.ok => ret.val.err = r.err
      [] OTHER ->
           /\ ret.val.err = TypeMismatch(op.arg) /\ ret.val.panic = ""
           /\ y = prev.y

\* a decoder has been given a text that Parse rejects
GivenFailingText ==
  /\ pc = "decoded"
  /\ \/ op.name = "UnmarshalText" /\ ~Parse(op.arg).ok
     \/ /\ op.name = "Scan"
        /\ op.arg.type \in {"string", "[]byte"}
        /\ ~Parse(op.arg.v).ok
     \/ /\ op.name \in {"UnmarshalJSON", "UnmarshalJSON2"}
        /\ op.arg # NullText
        /\ jsonText(op.arg).ok
        /\ ~Parse(jsonText(op.arg).str).ok

\* C27: when the text given to UnmarshalText, UnmarshalJSON or Scan (as a
\* string or as bytes) does not parse, the call returns the error and does not
\* panic, and the byte count and the Base of the receiver are what they were
\* before the call.
C27_FailureLeavesReceiver ==
  GivenFailingText
    => /\ ret.val.panic = ""
       /\ ret.val.err.msg # ""
       /\ y = prev.y

(***************************************************************************)
(* C28.  The space between the number and the suffix.                      *)
(***************************************************************************)
IsBlank(ch) == ch = " " \/ ch = "\t"

HasBlank(s) == \E i \in 1..Len(s) : IsBlank(s[i])

\* the result for the same text written without the space after the number
Unspaced == Parse(Render([inp EXCEPT !.space = FALSE]))

CauseOf(r) == IF r.ok THEN NoErr ELSE r.err.cause

\* C28: Parse skips at most one space after the number.  A text with one
\* space between number and suffix gives the result of the text without it,
\* and "1 " is 1 byte.  Any other space or tab is not skipped: after the
\* number it is part of the suffix text, which is then no valid unit, and
\* before the number it keeps the number from being read.
C28_AtMostOneSpace ==
  pc = "parsed" =>
    /\ (inp.space /\ InpHasDigits /\ ~HasBlank(inp.suffix))
         => /\ res.ok = Unspaced.ok
            /\ res.size = Unspaced.size
            /\ CauseOf(res) = CauseOf(Unspaced)
    /\ text = <<"1", " ">> => res.ok /\ res.size = New(NewInt(1), Metric)
    /\ (InpHasDigits /\ HasBlank(inp.suffix))
         => ~res.ok /\ CauseOf(res) = InvalidUnit(inp.suffix)
    /\ (~InpHasDigits /\ (inp.space \/ HasBlank(inp.suffix)))
         => ~res.ok /\ CauseOf(res) = Err("must start with a number")

\* a second space after the number has made Parse fail
C28_Witness ==
  /\ pc = "parsed"
  /\ inp.space /\ InpHasDigits
  /\ inp.suffix = <<" ", "b">>
  /\ ~res.ok

(***************************************************************************)
(* C29.  The order of the checks of parse.                                 *)
(***************************************************************************)
\* the first check that the text fails, in the order empty text, missing
\* digits, unknown suffix, value out of range
FirstFailure ==
  IF Len(text) = 0 THEN Err("empty string")
  ELSE IF ~InpHasDigits THEN Err("must start with a number")
  ELSE IF ~Resolves(inp.suffix) THEN InvalidUnit(inp.suffix)
  ELSE IF ~InpFits THEN Overflow
  ELSE NoErr

ManyNines == [i \in 1..20 |-> "9"]

\* C29: Parse reports the first failure only, in the order empty text,
\* missing digits, unknown suffix, overflow, and succeeds when there is
\* none: ". tUb" gets the malformed-number error and
\* "99999999999999999999 tUb" the invalid-unit error, not the overflow one.
C29_FirstFailureReported ==
  pc = "parsed" =>
    /\ res.ok = (FirstFailure = NoErr)
    /\ CauseOf(res) = FirstFailure
    /\ text = <<".", " ", "t", "U", "b">>
         => CauseOf(res) = Err("must start with a number")
    /\ text = ManyNines \o <<" ", "t", "U", "b">>
         => CauseOf(res) = InvalidUnit(<<"t", "U", "b">>)

\* a number out of range before an unknown suffix was refused for its suffix
C29_Witness ==
  /\ pc = "parsed"
  /\ inp.whole = ManyNines
  /\ inp.suffix = <<"t", "U", "b">>
  /\ ~res.ok /\ res.err.cause.msg = "is not a valid byte quantity"

(***************************************************************************)
(* C30.  Encoding a Size and decoding the result into a new Size.          *)
(***************************************************************************)
\* a Size of a supported base has been encoded, and the result decoded into y
RoundTripped == pc = "restored" /\ size.Base \in {Metric, Binary}

\* String writes the size with the suffix "B"
RendersPlain(s) == EndsWith(String(s).text, <<" ", "B">>)

\* C30: decoding the encoded form of a Size of base Metric or Binary
\* (MarshalText then UnmarshalText, MarshalJSON then UnmarshalJSON, Value
\* then Scan) gives a Size with the same byte count and the same Base.
C30_WholeValueRestored ==
  RoundTripped =>
    /\ ret.val.panic = "" /\ ret.val.err = NoErr
    /\ y.bytes = size.bytes
    /\ y.Base = size.Base

\* C30, amended: the decoding succeeds and gives the same byte count; the
\* Base is the same except for a Binary size that String writes in plain
\* bytes, which is decoded as a Metric size.
C30_ByteCountRestored ==
  RoundTripped =>
    /\ ret.val.panic = "" /\ ret.val.err = NoErr
    /\ y.bytes = size.bytes
    /\ y.Base = IF RendersPlain(size) THEN Metric ELSE size.Base

\* 1023 bytes Binary have gone through JSON and become 1023 bytes Metric
C30_Witness ==
  /\ pc = "restored"
  /\ op.name = "UnmarshalJSON"
  /\ size = New(NewInt(1023), Binary)
  /\ out.text = <<"\"", "1", "0", "2", "3", " ", "B", "\"">>
  /\ y = New(NewInt(1023), Metric)

====
